---- MODULE Spec2Model ----
(***************************************************************************)
(* Gym Management System: the membership lifecycle sweep, the daily        *)
(* notification job and the hourly scheduler of src/app.js, as a state     *)
(* machine over the rows of the MySQL tables the handlers read and write.  *)
(*                                                                         *)
(* Dates are day numbers, timestamps are [day, hour] pairs (the cron fires *)
(* on the hour).  A handler is one atomic step: the claims of the          *)
(* sequential sections are about handlers run one after another.           *)
(***************************************************************************)
EXTENDS Integers, Sequences, FiniteSets, TLC

VARIABLES
    now,              \* the clock: [day, hour] (CURDATE(), NOW(), new Date())
    users,            \* table users: id -> [role, is_active]
    plans,            \* table membership_plans: id -> [name, duration_days]
    memberships,      \* table memberships, row id = index
    attendance,       \* table attendance, row id = index
    notifications,    \* table notifications, row id = index
    health_metrics,   \* table health_metrics, row id = index
    lastDailyRunKey,  \* the scheduler's process-wide gate key
    dayLog,           \* history of the current calendar day
    lastRun,          \* history: what the last handler did
    restartLog,       \* history: the restarts and tick-driven runs of the day, where kept
    inflight,         \* the handlers suspended at an await: request -> its local state
    sessions          \* the session store: the users that req.session.user can name

vars == <<now, users, plans, memberships, attendance, notifications,
          health_metrics, lastDailyRunKey, dayLog, lastRun, restartLog, inflight, sessions>>

----------------------------------------------------------------------------
(* Bounds of the model *)

\* last calendar day of the scheduler specification
MaxDay == 2
\* restarts of the process on one day, in the restart specification
MaxRestarts == 1
\* last calendar day of the week specification
MaxWeekDay == 9
\* last calendar day of the lifecycle specification
MaxLifeDay == 5
\* memberships the lifecycle specification lets users create
MaxMemberships == 3

(* Program constants *)

DAILY_RUN_HOUR == 9

\* the hours of a day the clock is sampled at: before, at and after DAILY_RUN_HOUR
Hours == {DAILY_RUN_HOUR - 1, DAILY_RUN_HOUR, DAILY_RUN_HOUR + 1}

UserIds == {1, 2, 3}

\* the plan ids a request can name
PlanIds == {1, 2, 3}

\* let lastDailyRunKey = null
NULL == <<>>

----------------------------------------------------------------------------
(* Dates and keys *)

\* todayKey(d): the "YYYY-MM-DD" string of a Date: the day, without the time
todayKey(d) == <<d.day>>

\* a timestamp in hours, for NOW() - INTERVAL 7 DAY
Stamp(t) == t.day * 24 + t.hour

\* DATEDIFF(a, b) on dates
DATEDIFF(a, b) == a - b

Max(S) == CHOOSE x \in S : \A y \in S : y <= x

\* the ids of a set of rows in id order (a SELECT without ORDER BY on the primary key)
RECURSIVE InIdOrder(_)
InIdOrder(S) ==
    IF S = {} THEN <<>>
    ELSE LET m == CHOOSE x \in S : \A y \in S : x <= y
         IN  <<m>> \o InIdOrder(S \ {m})

----------------------------------------------------------------------------
(* Lifecycle sweep: activateExpireTasks *)

\* mutant: the activation update without its status condition
ActivatePendingAnyStatus(ms, today) ==
    [i \in DOMAIN ms |->
        IF ms[i].start_date <= today
        THEN [ms[i] EXCEPT !.status = "active"] ELSE ms[i]]

\* mutant: the activation update with start_date < CURDATE()
ActivatePendingStrict(ms, today) ==
    [i \in DOMAIN ms |->
        IF ms[i].status = "pending" /\ ms[i].start_date < today
        THEN [ms[i] EXCEPT !.status = "active"] ELSE ms[i]]

\* UPDATE memberships SET status='active' WHERE status='pending' AND start_date <= CURDATE()
ActivatePending(ms, today) ==
    [i \in DOMAIN ms |->
        IF ms[i].status = "pending" /\ ms[i].start_date <= today
        THEN [ms[i] EXCEPT !.status = "active"] ELSE ms[i]]

\* mutant: the expiry update also moves the end date to today
ExpireActiveTruncating(ms, today) ==
    [i \in DOMAIN ms |->
        IF ms[i].status = "active" /\ ms[i].end_date < today
        THEN [ms[i] EXCEPT !.status = "expired", !.end_date = today] ELSE ms[i]]

\* mutant: the expiry update with end_date <= CURDATE()
ExpireActiveInclusive(ms, today) ==
    [i \in DOMAIN ms |->
        IF ms[i].status = "active" /\ ms[i].end_date <= today
        THEN [ms[i] EXCEPT !.status = "expired"] ELSE ms[i]]

\* UPDATE memberships SET status='expired' WHERE status='active' AND end_date < CURDATE()
ExpireActive(ms, today) ==
    [i \in DOMAIN ms |->
        IF ms[i].status = "active" /\ ms[i].end_date < today
        THEN [ms[i] EXCEPT !.status = "expired"] ELSE ms[i]]

\* mutant: the two updates in the other order
activateExpireTasksSwapped(ms, today) == ActivatePending(ExpireActive(ms, today), today)

\* both updates, in the order of the code
activateExpireTasks(ms, today) == ExpireActive(ActivatePending(ms, today), today)

\* mutant: the tick goes to the gate without the lifecycle updates
LifecycleUpToSkipped(ms, today, fail) == ms

\* the store after the lifecycle updates, the one that throws and the ones
\* after it left out
LifecycleUpTo(ms, today, fail) ==
    CASE fail = "activate" -> ms
      [] fail = "expire"   -> ActivatePending(ms, today)
      [] OTHER             -> activateExpireTasks(ms, today)

----------------------------------------------------------------------------
(* The clock *)

\* the history record of a step that is no scheduler run
NoRun ==
    [op |-> "init", fail |-> "none", threw |-> FALSE, ranDaily |-> FALSE,
     keyWasToday |-> FALSE, keyKept |-> TRUE, retry |-> FALSE, before |-> <<>>,
     nBefore |-> 0, mailFailed |-> FALSE, req |-> <<>>, origin |-> <<>>, handled |-> FALSE]

\* the history of a day on which nothing has happened yet:
\*   ticked:   the cron tick of the current hour has fired
\*   tickRuns: daily job bodies that ticks completed, this day, since the process started
\*   retryDue: the last tick of this day failed
\*   manual:   "yes" once a manual trigger has completed this day, "restarted"
\*             once the process has restarted after that
NewDay == [ticked |-> FALSE, tickRuns |-> 0, retryDue |-> FALSE, manual |-> "no"]

\* the next sampled hour of the same day
\* the requests that can be in flight at once, and a request slot that is free
Requests == {1, 2}
Idle == [op |-> "idle"]
NoneInFlight == [r \in Requests |-> Idle]

\* the restart history is kept only by the specification that starts it
NoLog == <<>>

\* the restart history of a day on which nothing has happened yet:
\*   restarts: restarts of the process this day
\*   runs:     daily job bodies that ticks completed this day
\*   rearmed:  the process has restarted and no tick at or after
\*             DAILY_RUN_HOUR has fired since
NewLog == <<[restarts |-> 0, runs |-> 0, rearmed |-> FALSE]>>

LogDay(log) == IF log = NoLog THEN log ELSE NewLog

LogRestart(log) ==
    IF log = NoLog THEN log
    ELSE <<[log[1] EXCEPT !.restarts = @ + 1, !.rearmed = TRUE]>>

LogTick(log, t, done) ==
    IF log = NoLog THEN log
    ELSE <<[log[1] EXCEPT !.runs = IF done THEN @ + 1 ELSE @,
                          !.rearmed = IF t.hour >= DAILY_RUN_HOUR THEN FALSE ELSE @]>>

NextHour ==
    /\ now.hour + 1 \in Hours
    /\ now' = [now EXCEPT !.hour = now.hour + 1]
    /\ dayLog' = [dayLog EXCEPT !.ticked = FALSE]
    /\ lastRun' = [NoRun EXCEPT !.op = "clock"]
    /\ UNCHANGED <<sessions, inflight, restartLog, health_metrics, users, plans, memberships, attendance, notifications,
                   lastDailyRunKey>>

\* midnight: the first sampled hour of the next day
NextDay(lastDay) ==
    /\ now.day < lastDay
    /\ now' = [day |-> now.day + 1, hour |-> DAILY_RUN_HOUR - 1]
    /\ dayLog' = NewDay
    /\ restartLog' = LogDay(restartLog)
    /\ lastRun' = [NoRun EXCEPT !.op = "clock"]
    /\ UNCHANGED <<sessions, inflight, health_metrics, users, plans, memberships, attendance, notifications,
                   lastDailyRunKey>>

----------------------------------------------------------------------------
(* POST /subscribe *)

\* mutant: the latest active membership, whether it has ended or not
CurrentActiveAnyEnd(ms, userId, today) ==
    {i \in DOMAIN ms : ms[i].user_id = userId /\ ms[i].status = "active"}

\* SELECT * FROM memberships WHERE user_id=? AND status='active' AND end_date >= CURDATE()
CurrentActive(ms, userId, today) ==
    {i \in DOMAIN ms : /\ ms[i].user_id = userId
                       /\ ms[i].status = "active"
                       /\ ms[i].end_date >= today}

\* the row the handler inserts for an existing plan
SubscribeRow(ms, ps, userId, planId, today) ==
    LET cur == CurrentActive(ms, userId, today)
        dur == ps[planId].duration_days
    IN  IF cur # {}
        THEN LET endDate == Max({ms[i].end_date : i \in cur})   \* ORDER BY end_date DESC LIMIT 1
             IN  [user_id |-> userId, plan_id |-> planId,
                  start_date |-> endDate + 1,
                  end_date |-> (endDate + 1) + (dur - 1),
                  status |-> "pending"]
        ELSE [user_id |-> userId, plan_id |-> planId,
              start_date |-> today,
              end_date |-> today + (dur - 1),
              status |-> "active"]

Subscribe(userId, planId) ==
    /\ users[userId].is_active                 \* isAuth, and the deactivated-user middleware
    /\ Len(memberships) < MaxMemberships
    /\ memberships' =
         IF planId \in DOMAIN plans
         THEN Append(memberships, SubscribeRow(memberships, plans, userId, planId, now.day))
         ELSE memberships                      \* 400 Plan not found
    /\ lastRun' = [NoRun EXCEPT !.op = "subscribe", !.before = memberships,
                                !.req = <<userId, planId>>]
    /\ UNCHANGED <<sessions, inflight, restartLog, health_metrics, now, users, plans, attendance, notifications,
                   lastDailyRunKey, dayLog>>

----------------------------------------------------------------------------
(* A call of activateExpireTasks that returns successfully *)

Sweep ==
    /\ memberships' = activateExpireTasks(memberships, now.day)
    /\ lastRun' = [NoRun EXCEPT
                      !.op = "sweep", !.before = memberships,
                      !.origin = IF lastRun.op = "sweepfail" /\ lastRun.fail = "expire"
                                 THEN <<lastRun.before>> ELSE <<>>]
    /\ UNCHANGED <<sessions, inflight, restartLog, health_metrics, now, users, plans, attendance, notifications,
                   lastDailyRunKey, dayLog>>

\* a call of activateExpireTasks that throws: fail names the update that
\* fails, the updates before it are applied
SweepFails(fail) ==
    /\ fail \in {"activate", "expire"}
    /\ memberships' = LifecycleUpTo(memberships, now.day, fail)
    /\ lastRun' = [NoRun EXCEPT !.op = "sweepfail", !.fail = fail, !.threw = TRUE,
                                !.before = memberships]
    /\ UNCHANGED <<sessions, inflight, restartLog, health_metrics, now, users, plans, attendance, notifications,
                   lastDailyRunKey, dayLog>>

----------------------------------------------------------------------------
(* The daily job: dailyNotificationTasks *)

\* mutant: every active membership that ends within 3 days
expiringWithin3(ms, us, ps, today) ==
    InIdOrder({i \in DOMAIN ms :
        /\ ms[i].user_id \in DOMAIN us /\ us[ms[i].user_id].is_active
        /\ ms[i].plan_id \in DOMAIN ps
        /\ ms[i].status = "active"
        /\ DATEDIFF(ms[i].end_date, today) \in 0..3})

\* the memberships of the first SELECT: active user, existing plan, active
\* membership ending in 3, 1 or 0 days
expiring(ms, us, ps, today) ==
    InIdOrder({i \in DOMAIN ms :
        /\ ms[i].user_id \in DOMAIN us /\ us[ms[i].user_id].is_active
        /\ ms[i].plan_id \in DOMAIN ps
        /\ ms[i].status = "active"
        /\ DATEDIFF(ms[i].end_date, today) \in {3, 1, 0}})

\* mutant: created_at = CURDATE(), the timestamp compared with midnight
RecentRenewalNoDate(ns, userId, today) ==
    \E j \in DOMAIN ns : /\ ns[j].user_id = userId
                         /\ ns[j].type = "renewal"
                         /\ ns[j].created_at = [day |-> today, hour |-> 0]

\* SELECT id FROM notifications WHERE user_id=? AND type='renewal' AND DATE(created_at)=CURDATE()
RecentRenewal(ns, userId, today) ==
    \E j \in DOMAIN ns : /\ ns[j].user_id = userId
                         /\ ns[j].type = "renewal"
                         /\ ns[j].created_at.day = today

\* the sets of users whose notification mail cannot be sent during a run: the
\* lookup of the address or the mail transport throws
MailDown == {{}, {1}}

\* mutant: a failed send takes the notification row back
AfterSendRollback(ns, sent) == IF sent THEN ns ELSE SubSeq(ns, 1, Len(ns) - 1)

\* the notifications table after the send step of addNotification:
\* try { SELECT email ...; await sendEmail(...) } catch (e) { console.error(...) }
AfterSend(ns, sent) == ns

\* addNotification(userId, type, message): the row it inserts (created_at
\* defaults to now), then the send step; down: the users whose send fails
addNotification(ns, userId, type, message, t, down) ==
    AfterSend(Append(ns, [user_id |-> userId, type |-> type, message |-> message,
                          is_read |-> FALSE, created_at |-> t]),
              userId \notin down)

\* `Your ${row.plan_name} membership expires on ${row.end_date}. Consider renewing.`
RenewalMessage(planName, endDate) ==
    [text |-> "membership expires", plan_name |-> planName, end_date |-> endDate]

AttendanceMessage ==
    [text |-> "We miss you!", plan_name |-> "", end_date |-> 0]

\* the loop over the expiring rows: check, then insert
RECURSIVE RenewalLoop(_, _, _, _, _, _)
RenewalLoop(rows, ms, ps, ns, t, down) ==
    IF rows = <<>> THEN ns
    ELSE LET row == ms[Head(rows)]
             ns2 == IF ~RecentRenewal(ns, row.user_id, t.day)
                    THEN addNotification(ns, row.user_id, "renewal",
                             RenewalMessage(ps[row.plan_id].name, row.end_date), t, down)
                    ELSE ns
         IN  RenewalLoop(Tail(rows), ms, ps, ns2, t, down)

\* SELECT id FROM users WHERE role='member' AND is_active=1
members(us) ==
    InIdOrder({u \in DOMAIN us : us[u].role = "member" /\ us[u].is_active})

\* SELECT COUNT(*) FROM attendance WHERE user_id=? AND DATE(check_in) >= (CURDATE() - INTERVAL 7 DAY)
AttendanceCount(att, userId, today) ==
    Cardinality({j \in DOMAIN att : /\ att[j].user_id = userId
                                    /\ att[j].check_in.day >= today - 7})

\* mutant: the attendance reminder deduplicated per calendar day, like the renewal
RecentAttendanceNoteToday(ns, userId, t) ==
    \E j \in DOMAIN ns : /\ ns[j].user_id = userId
                         /\ ns[j].type = "attendance"
                         /\ ns[j].created_at.day = t.day

\* SELECT id FROM notifications WHERE user_id=? AND type='attendance'
\*   AND created_at >= (NOW() - INTERVAL 7 DAY)
RecentAttendanceNote(ns, userId, t) ==
    \E j \in DOMAIN ns : /\ ns[j].user_id = userId
                         /\ ns[j].type = "attendance"
                         /\ Stamp(ns[j].created_at) >= Stamp(t) - 7 * 24

\* mutant: two visits still count as low attendance
LowAttendanceAtMost2(cnt) == cnt <= 2

\* if ((count?.cnt || 0) < 2)
LowAttendance(cnt) == cnt < 2

\* the loop over the members: count, check, then insert
RECURSIVE AttendanceLoop(_, _, _, _, _)
AttendanceLoop(us, att, ns, t, down) ==
    IF us = <<>> THEN ns
    ELSE LET u == Head(us)
             ns2 == IF LowAttendance(AttendanceCount(att, u, t.day))
                       /\ ~RecentAttendanceNote(ns, u, t)
                    THEN addNotification(ns, u, "attendance", AttendanceMessage, t, down)
                    ELSE ns
         IN  AttendanceLoop(Tail(us), att, ns2, t, down)

\* the notifications table after a complete run of the job
dailyNotificationTasks(ms, us, ps, att, ns, t, down) ==
    AttendanceLoop(members(us), att,
                   RenewalLoop(expiring(ms, us, ps, t.day), ms, ps, ns, t, down), t, down)

\* a store error in the job after k of its inserts: the job can fail at any
\* store operation, so after all its inserts only if a query still follows
CanFailAfter(full, ns, us, k) ==
    LET total == Len(full) - Len(ns)
        mem == members(us)
    IN  /\ k \in 0..total
        /\ IF k < total \/ total = 0 THEN TRUE
           ELSE IF full[Len(full)].type = "renewal" THEN TRUE
           ELSE full[Len(full)].user_id # mem[Len(mem)]

----------------------------------------------------------------------------
(* The scheduler: runHourlyTasks, GET /admin/run-daily, process restart *)

FailPoints == {"none", "activate", "expire", "daily"}

\* mutant: the gate looks at the hour only
shouldRunDailyAnyKey(t, lastKey) == t.hour >= DAILY_RUN_HOUR

\* mutant: the gate opens after the configured hour only
shouldRunDailyLate(t, lastKey) ==
    t.hour > DAILY_RUN_HOUR /\ lastKey # todayKey(t)

\* if (hour >= DAILY_RUN_HOUR && lastDailyRunKey !== key)
shouldRunDaily(t, lastKey) ==
    t.hour >= DAILY_RUN_HOUR /\ lastKey # todayKey(t)

\* the memberships table when the lifecycle updates stop at the given point
\* mutant: the key is advanced as soon as the daily job body is started
KeyAfterTickEager(runs, done, key, lastKey) == IF runs THEN key ELSE lastKey

\* await dailyNotificationTasks(); lastDailyRunKey = key;
KeyAfterTick(runs, done, key, lastKey) == IF done THEN key ELSE lastKey

\* the send of one of the rows that a run has inserted failed
MailFailed(ns, nBefore, down) ==
    \E j \in (nBefore + 1)..Len(ns) : ns[j].user_id \in down

\* one hourly tick; fail names the store operation that throws, k the inserts
\* of the daily job done before it, down the users whose mail cannot be sent
runHourlyTasks(fail, k, down) ==
    LET key == todayKey(now)
        lifeOk == fail \notin {"activate", "expire"}
        runs == lifeOk /\ shouldRunDaily(now, lastDailyRunKey)
        done == runs /\ fail = "none"
        ms2 == LifecycleUpTo(memberships, now.day, fail)
        full == dailyNotificationTasks(ms2, users, plans, attendance, notifications,
                                       now, down)
    IN  /\ ~dayLog.ticked                   \* cron.schedule('0 * * * *'): once an hour
        /\ fail # "daily" => k = 0
        /\ fail = "daily" =>
              (shouldRunDaily(now, lastDailyRunKey)
                  /\ CanFailAfter(full, notifications, users, k))
        /\ memberships' = ms2
        /\ notifications' =
             IF done THEN full
             ELSE IF runs THEN SubSeq(full, 1, Len(notifications) + k)
             ELSE notifications
        /\ lastDailyRunKey' = KeyAfterTick(runs, done, key, lastDailyRunKey)
        /\ dayLog' = [dayLog EXCEPT
                         !.ticked = TRUE,
                         !.tickRuns = IF done THEN @ + 1 ELSE @,
                         !.retryDue = fail # "none"]
        /\ lastRun' = [op |-> "tick", fail |-> fail,
                       threw |-> FALSE,               \* try { ... } catch (e) { console.error }
                       ranDaily |-> runs,
                       keyWasToday |-> lastDailyRunKey = key,
                       keyKept |-> lastDailyRunKey' = lastDailyRunKey,
                       retry |-> dayLog.retryDue, before |-> memberships,
                       nBefore |-> Len(notifications),
                       mailFailed |-> MailFailed(notifications', Len(notifications), down),
                       req |-> <<>>, origin |-> <<>>, handled |-> FALSE]
        /\ restartLog' = LogTick(restartLog, now, done)
        /\ UNCHANGED <<sessions, inflight, health_metrics, now, users, plans, attendance>>

\* mutant: the manual trigger leaves the key alone
KeyAfterManualKept(done, key, lastKey) == lastKey

\* mutant: a failed manual trigger clears the key
KeyAfterManualReset(done, key, lastKey) == IF done THEN key ELSE NULL

\* await dailyNotificationTasks(); lastDailyRunKey = todayKey();
KeyAfterManual(done, key, lastKey) == IF done THEN key ELSE lastKey

\* the manual trigger: no gate, no try/catch
runDaily(fail, k, down) ==
    LET lifeOk == fail \notin {"activate", "expire"}
        done == fail = "none"
        ms2 == LifecycleUpTo(memberships, now.day, fail)
        full == dailyNotificationTasks(ms2, users, plans, attendance, notifications,
                                       now, down)
    IN  /\ \E a \in DOMAIN users : users[a].role = "admin" /\ users[a].is_active  \* isAdmin
        /\ fail # "daily" => k = 0
        /\ fail = "daily" => CanFailAfter(full, notifications, users, k)
        /\ memberships' = ms2
        /\ notifications' =
             IF done THEN full
             ELSE IF lifeOk THEN SubSeq(full, 1, Len(notifications) + k)
             ELSE notifications
        /\ lastDailyRunKey' = KeyAfterManual(done, todayKey(now), lastDailyRunKey)
        /\ dayLog' = [dayLog EXCEPT !.manual = IF done THEN "yes" ELSE @]
        /\ lastRun' = [op |-> "manual", fail |-> fail,
                       threw |-> ~done,               \* the rejection reaches Express
                       ranDaily |-> lifeOk,
                       keyWasToday |-> lastDailyRunKey = todayKey(now),
                       keyKept |-> lastDailyRunKey' = lastDailyRunKey,
                       retry |-> FALSE, before |-> <<>>,
                       nBefore |-> Len(notifications),
                       mailFailed |-> MailFailed(notifications', Len(notifications), down),
                       req |-> <<>>, origin |-> <<>>, handled |-> FALSE]
        /\ UNCHANGED <<sessions, inflight, restartLog, health_metrics, now, users, plans, attendance>>

\* mutant: the key survives the restart
RestartKeepsKey ==
    /\ restartLog # NoLog => restartLog[1].restarts < MaxRestarts
    /\ dayLog' = [dayLog EXCEPT !.tickRuns = 0,
                                !.manual = IF @ = "no" THEN "no" ELSE "restarted"]
    /\ lastRun' = [NoRun EXCEPT !.op = "restart"]
    /\ restartLog' = LogRestart(restartLog)
    /\ UNCHANGED <<sessions, inflight, health_metrics, now, users, plans, memberships, attendance, notifications,
                   lastDailyRunKey>>

\* the process stops and starts again: module state is initialised anew
Restart ==
    /\ restartLog # NoLog => restartLog[1].restarts < MaxRestarts
    /\ lastDailyRunKey' = NULL
    /\ dayLog' = [dayLog EXCEPT !.tickRuns = 0,
                                !.manual = IF @ = "no" THEN "no" ELSE "restarted"]
    /\ lastRun' = [NoRun EXCEPT !.op = "restart"]
    /\ restartLog' = LogRestart(restartLog)
    /\ UNCHANGED <<sessions, inflight, health_metrics, now, users, plans, memberships, attendance, notifications>>

----------------------------------------------------------------------------
(* Initial state: the schema freshly imported, the process just started *)

InitPlans ==
    (1 :> [name |-> "day", duration_days |-> 1]) @@
    (2 :> [name |-> "week", duration_days |-> 4])

\* the seeded admin and two registered members, the second one deactivated
InitUsers ==
    (1 :> [role |-> "admin", is_active |-> TRUE]) @@
    (2 :> [role |-> "member", is_active |-> TRUE]) @@
    (3 :> [role |-> "member", is_active |-> FALSE])

Init ==
    /\ now = [day |-> 1, hour |-> DAILY_RUN_HOUR - 1]
    /\ users = InitUsers
    /\ plans = InitPlans
    /\ memberships = <<>>
    /\ attendance = <<>>
    /\ notifications = <<>>
    /\ health_metrics = <<>>
    /\ lastDailyRunKey = NULL
    /\ dayLog = NewDay
    /\ lastRun = NoRun
    /\ restartLog = NoLog
    /\ inflight = NoneInFlight
    /\ sessions = {}

----------------------------------------------------------------------------
(* The lifecycle specification: subscriptions, days passing, sweeps *)

LifeNext ==
    \/ \E u \in UserIds, p \in PlanIds : Subscribe(u, p)
    \/ NextDay(MaxLifeDay)
    \/ Sweep
    \/ \E f \in {"activate", "expire"} : SweepFails(f)

SpecLife == Init /\ [][LifeNext]_vars

----------------------------------------------------------------------------
(* The scheduler specification: the clock, ticks, manual triggers, restarts, *)
(* over a few days, from stores that subscriptions of the first day built.  *)

\* the memberships table after the subscribe requests reqs, handled in order
RECURSIVE SubscribeAll(_, _, _, _)
SubscribeAll(ms, ps, reqs, today) ==
    IF reqs = <<>> THEN ms
    ELSE SubscribeAll(Append(ms, SubscribeRow(ms, ps, Head(reqs)[1], Head(reqs)[2], today)),
                      ps, Tail(reqs), today)

\* the subscribe requests of the first morning:
\*   none;
\*   member 2 takes the one-day plan three times (one active membership, two
\*     pending ones chained to the same day);
\*   the admin and member 2 each take the four-day plan;
\*   member 2 takes the four-day plan, then the one-day plan (chained after it)
InitRequests ==
    { <<>>,
      << <<2, 1>>, <<2, 1>>, <<2, 1>> >>,
      << <<1, 2>>, <<2, 2>> >>,
      << <<2, 2>>, <<2, 1>> >> }

SchedInit ==
    /\ now = [day |-> 1, hour |-> DAILY_RUN_HOUR - 1]
    /\ users = InitUsers
    /\ plans = InitPlans
    /\ \E reqs \in InitRequests : memberships = SubscribeAll(<<>>, InitPlans, reqs, 1)
    /\ attendance = <<>>
    /\ notifications = <<>>
    /\ health_metrics = <<>>
    /\ lastDailyRunKey = NULL
    /\ dayLog = NewDay
    /\ lastRun = NoRun
    /\ restartLog = NoLog
    /\ inflight = NoneInFlight
    /\ sessions = {}

\* the most rows one run of the daily job inserts: one renewal per user and
\* one attendance reminder per member
MaxInserts == 2 * Cardinality(UserIds)

Next ==
    \/ NextHour
    \/ NextDay(MaxDay)
    \/ \E f \in FailPoints, k \in 0..MaxInserts, down \in MailDown :
          runHourlyTasks(f, k, down)
    \/ \E f \in FailPoints, k \in 0..MaxInserts, down \in MailDown :
          runDaily(f, k, down)
    \/ Restart

Spec == SchedInit /\ [][Next]_vars

----------------------------------------------------------------------------
(* The week specification: the same scheduler over more than a week, for    *)
(* the 7-day windows of the attendance reminder; no memberships.            *)

\* INSERT INTO attendance (user_id, check_in, method) VALUES (?, NOW(), 'manual')
\* followed by UPDATE attendance SET check_out=NOW() WHERE id=?
Visit(userId, t) == [user_id |-> userId, check_in |-> t, check_out |-> <<t>>]

\* the attendance table of the first morning: empty, or two visits of member 2
InitAttendance ==
    { <<>>,
      << Visit(2, [day |-> 1, hour |-> DAILY_RUN_HOUR - 1]),
         Visit(2, [day |-> 1, hour |-> DAILY_RUN_HOUR - 1]) >> }

WeekInit ==
    /\ now = [day |-> 1, hour |-> DAILY_RUN_HOUR - 1]
    /\ users = InitUsers
    /\ plans = InitPlans
    /\ memberships = <<>>
    /\ attendance \in InitAttendance
    /\ notifications = <<>>
    /\ health_metrics = <<>>
    /\ lastDailyRunKey = NULL
    /\ dayLog = NewDay
    /\ lastRun = NoRun
    /\ restartLog = NoLog
    /\ inflight = NoneInFlight
    /\ sessions = {}

WeekNext ==
    \/ NextHour
    \/ NextDay(MaxWeekDay)
    \/ \E f \in FailPoints, k \in 0..MaxInserts, down \in MailDown :
          runHourlyTasks(f, k, down)
    \/ \E f \in FailPoints, k \in 0..MaxInserts, down \in MailDown :
          runDaily(f, k, down)
    \/ Restart

SpecWeek == WeekInit /\ [][WeekNext]_vars

----------------------------------------------------------------------------
(* POST /attendance/checkin, POST /attendance/checkout *)

\* mutant: the latest entry of the user, open or closed
LatestEntry(att, userId) ==
    LET mine == {i \in DOMAIN att : att[i].user_id = userId}
    IN  {i \in mine : \A j \in mine : Stamp(att[j].check_in) <= Stamp(att[i].check_in)}

\* mutant: the latest entry of the user that was opened today
OpenEntryToday(att, userId) ==
    LET mine == {i \in DOMAIN att : /\ att[i].user_id = userId
                                    /\ att[i].check_out = NULL
                                    /\ att[i].check_in.day = now.day}
    IN  {i \in mine : \A j \in mine : Stamp(att[j].check_in) <= Stamp(att[i].check_in)}

\* SELECT * FROM attendance WHERE user_id=? AND check_out IS NULL
\*   ORDER BY check_in DESC LIMIT 1: the rows the query can return (a
\* check_out is NULL, or <<the time>>)
OpenEntry(att, userId) ==
    LET mine == {i \in DOMAIN att : att[i].user_id = userId /\ att[i].check_out = NULL}
    IN  {i \in mine : \A j \in mine : Stamp(att[j].check_in) <= Stamp(att[i].check_in)}

\* POST /attendance/checkin
Checkin(userId) ==
    /\ users[userId].is_active                 \* isAuth, and the deactivated-user middleware
    /\ attendance' =
         IF OpenEntry(attendance, userId) # {}
         THEN attendance                       \* if (open) return res.redirect('/attendance')
         ELSE Append(attendance, [user_id |-> userId, check_in |-> now, check_out |-> NULL])
    /\ lastRun' = [NoRun EXCEPT !.op = "checkin", !.before = attendance,
                                !.req = <<userId>>]
    /\ UNCHANGED <<sessions, inflight, restartLog, health_metrics, now, users, plans, memberships, notifications,
                   lastDailyRunKey, dayLog>>

\* POST /attendance/checkout
Checkout(userId) ==
    /\ users[userId].is_active
    /\ IF OpenEntry(attendance, userId) = {}
       THEN attendance' = attendance           \* if (!open) return res.redirect('/attendance')
       ELSE \E open \in OpenEntry(attendance, userId) :
               attendance' = [attendance EXCEPT ![open].check_out = <<now>>]
    /\ lastRun' = [NoRun EXCEPT !.op = "checkout", !.before = attendance,
                                !.req = <<userId>>]
    /\ UNCHANGED <<sessions, inflight, restartLog, health_metrics, now, users, plans, memberships, notifications,
                   lastDailyRunKey, dayLog>>

----------------------------------------------------------------------------
(* The attendance specification: check-ins and check-outs, day after day *)

\* attendance entries the attendance specification lets users create
MaxVisits == 3

AttendNext ==
    \/ \E u \in UserIds : Len(attendance) < MaxVisits /\ Checkin(u)
    \/ \E u \in UserIds : Checkout(u)
    \/ NextDay(MaxDay)

SpecAttend == Init /\ [][AttendNext]_vars

----------------------------------------------------------------------------
(* POST /health *)

\* a field of the health form: NULL when left empty, <<n>> when n was typed
\* (x ? Number(x) : null); the columns hold the same
Heights == {NULL, <<0>>, <<100>>, <<200>>}
EntryDates == {NULL, <<2>>}

\* the other fields of a submission: weight_kg, heart_rate_bpm, calories_intake
Readings == {<<NULL, NULL, NULL>>, <<<<0>>, <<60>>, NULL>>, <<<<80>>, <<70>>, <<2000>>>>}

\* !x of a number field: null or 0
Falsy(x) == x = NULL \/ x = <<0>>

\* calcBMI(height_cm, weight_kg), in hundredths:
\* Number((weight_kg / (h * h)).toFixed(2)) with h = height_cm / 100
calcBMI(height_cm, weight_kg) ==
    IF Falsy(height_cm) \/ Falsy(weight_kg) THEN NULL
    ELSE LET hh == height_cm[1] * height_cm[1]
         IN  <<(2 * weight_kg[1] * 1000000 + hh) \div (2 * hh)>>

\* SELECT height_cm FROM health_metrics WHERE user_id=? AND height_cm IS NOT NULL
\*   ORDER BY entry_date DESC LIMIT 1: the rows the query can return
LastHeight(hm, userId) ==
    LET known == {i \in DOMAIN hm : hm[i].user_id = userId /\ hm[i].height_cm # NULL}
    IN  {i \in known : \A j \in known : hm[j].entry_date <= hm[i].entry_date}

\* mutant: INSERT without the unique key uq_user_entry
UpsertInsert(hm, row) == Append(hm, row)

\* INSERT INTO health_metrics ... ON DUPLICATE KEY UPDATE weight_kg=VALUES(weight_kg), ...
\* with UNIQUE KEY uq_user_entry (user_id, entry_date)
Upsert(hm, row) ==
    LET dup == {i \in DOMAIN hm : /\ hm[i].user_id = row.user_id
                                  /\ hm[i].entry_date = row.entry_date}
    IN  IF dup = {} THEN Append(hm, row)
        ELSE [hm EXCEPT ![CHOOSE i \in dup : TRUE] = row]

\* POST /health
HealthSubmit(userId, entry_date, weight_kg, height_cm, heart_rate_bpm, calories_intake) ==
    LET date == IF entry_date = NULL THEN now.day ELSE entry_date[1]
        last == LastHeight(health_metrics, userId)
    IN  /\ users[userId].is_active             \* isAuth, and the deactivated-user middleware
        /\ \E height \in IF ~Falsy(height_cm) THEN {height_cm}
                          ELSE IF last = {} THEN {NULL}   \* last?.height_cm || null
                          ELSE {health_metrics[i].height_cm : i \in last} :
              health_metrics' =
                  Upsert(health_metrics,
                         [user_id |-> userId, entry_date |-> date,
                          weight_kg |-> weight_kg, height_cm |-> height,
                          bmi |-> calcBMI(height, weight_kg),
                          heart_rate_bpm |-> heart_rate_bpm,
                          calories_intake |-> calories_intake])
        /\ lastRun' = [NoRun EXCEPT
                          !.op = "health",
                          !.nBefore = Len(health_metrics),
                          !.req = <<userId, date, weight_kg, height_cm,
                                    heart_rate_bpm, calories_intake>>]
        /\ UNCHANGED <<sessions, inflight, restartLog, now, users, plans, memberships, attendance, notifications,
                       lastDailyRunKey, dayLog>>

----------------------------------------------------------------------------
(* The health specification: submissions of two users for two dates *)

\* health metrics the health specification lets users create
MaxMetrics == 2

HealthNext ==
    \E u \in UserIds, e \in EntryDates, h \in Heights, r \in Readings :
        /\ HealthSubmit(u, e, r[1], h, r[2], r[3])
        /\ Len(health_metrics') <= MaxMetrics

SpecHealth == Init /\ [][HealthNext]_vars

----------------------------------------------------------------------------
(* Admin: POST /admin/plans/new, POST /admin/plans/:id/edit *)

\* the name field of the plan form, as typed (no blanks around it: name.trim()
\* leaves these as they are)
PlanNames == {"", "day", "month"}

\* the duration_days field of the plan form, as typed
DurationInputs == {"", "0", "-1", "0.4", "1", "4"}

\* Number(duration_days), in tenths
Number(str) ==
    CASE str = ""    -> 0
      [] str = "0"   -> 0
      [] str = "-1"  -> -10
      [] str = "0.4" -> 4
      [] str = "1"   -> 10
      [] str = "4"   -> 40

\* the value that a column of type int(11) stores for a number given in
\* tenths: the nearest integer (no tenths of exactly 5 among the inputs)
IntColumn(tenths) ==
    IF tenths >= 0 THEN (tenths + 5) \div 10 ELSE -((5 - tenths) \div 10)

\* if (!name || !duration_days || Number(duration_days) <= 0) return res.render(... error)
PlanFormValid(name, dur) ==
    ~(name = "" \/ dur = "" \/ Number(dur) <= 0)

\* UNIQUE KEY `name`: another plan has the name
NameTaken(ps, name, self) ==
    \E id \in DOMAIN ps \ {self} : ps[id].name = name

\* POST /admin/plans/new
PlanNew(name, dur) ==
    LET id == Max(DOMAIN plans) + 1            \* AUTO_INCREMENT
    IN  /\ \E a \in DOMAIN users : users[a].role = "admin" /\ users[a].is_active  \* isAdmin
        /\ id \in PlanIds
        /\ plans' =
             IF PlanFormValid(name, dur) /\ ~NameTaken(plans, name, id)
             THEN plans @@ (id :> [name |-> name,
                                   duration_days |-> IntColumn(Number(dur))])
             ELSE plans                        \* the form again, with an error
        /\ lastRun' = [NoRun EXCEPT !.op = "plan"]
        /\ UNCHANGED <<sessions, inflight, restartLog, health_metrics, now, users, memberships, attendance, notifications,
                       lastDailyRunKey, dayLog>>

\* POST /admin/plans/:id/edit
PlanEdit(id, name, dur) ==
    /\ \E a \in DOMAIN users : users[a].role = "admin" /\ users[a].is_active      \* isAdmin
    /\ plans' =
         IF /\ PlanFormValid(name, dur)
            /\ id \in DOMAIN plans             \* UPDATE ... WHERE id=?
            /\ ~NameTaken(plans, name, id)
         THEN [plans EXCEPT ![id] = [name |-> name,
                                     duration_days |-> IntColumn(Number(dur))]]
         ELSE plans
    /\ lastRun' = [NoRun EXCEPT !.op = "plan"]
    /\ UNCHANGED <<sessions, inflight, restartLog, health_metrics, now, users, memberships, attendance, notifications,
                   lastDailyRunKey, dayLog>>

----------------------------------------------------------------------------
(* The plans specification: plans created and edited, subscriptions *)

\* memberships the plans specification lets users create
MaxPlanRows == 2

PlansNext ==
    \/ \E n \in PlanNames, dur \in DurationInputs : PlanNew(n, dur)
    \/ \E id \in PlanIds, n \in PlanNames, dur \in DurationInputs : PlanEdit(id, n, dur)
    \/ \E u \in UserIds, p \in PlanIds :
          Len(memberships) < MaxPlanRows /\ Subscribe(u, p)

SpecPlans == Init /\ [][PlansNext]_vars

----------------------------------------------------------------------------
(* The job specification: ticks and manual triggers of one hour, at          *)
(* DAILY_RUN_HOUR, from stores of every shape the daily job tells apart.     *)

\* today in the job specification
JobDay == 10

\* the plans, with one that lasts longer than the longest renewal notice
JobPlans == InitPlans @@ (3 :> [name |-> "month", duration_days |-> 6])

\* a membership of plan p that ends on endDate
MembershipRow(u, p, endDate, st) ==
    [user_id |-> u, plan_id |-> p,
     start_date |-> endDate - (JobPlans[p].duration_days - 1),
     end_date |-> endDate, status |-> st]

\* the memberships of member 2 and of the deactivated member 3 that end
\* between yesterday and in 4 days: pending ones, active ones that have
\* started, expired ones that have ended
JobRows ==
    {r \in {MembershipRow(u, p, JobDay + off, st) :
                u \in {2, 3}, p \in DOMAIN JobPlans, off \in -1..4,
                st \in {"pending", "active", "expired"}} :
        /\ r.status = "expired" => r.end_date < JobDay
        /\ r.status = "active" => r.start_date <= JobDay}

JobMemberships ==
    {<<>>} \cup {<<r>> : r \in JobRows}
           \cup {<<r1, r2>> : r1 \in {r \in JobRows : r.user_id = 2 /\ r.status = "active"},
                              r2 \in {r \in JobRows : r.status = "active"}}

\* no notification, or a renewal reminder that member 2 got this morning or
\* yesterday
JobRenewals ==
    {<<>>} \cup
    {<<[user_id |-> 2, type |-> "renewal", message |-> RenewalMessage("week", JobDay),
        is_read |-> FALSE, created_at |-> t]>> :
        t \in {[day |-> JobDay, hour |-> DAILY_RUN_HOUR - 1],
                [day |-> JobDay - 1, hour |-> DAILY_RUN_HOUR]}}

\* visits of the two members today, 6, 7 and 8 days ago
JobVisits ==
    {Visit(u, [day |-> JobDay - off, hour |-> DAILY_RUN_HOUR - 1]) :
        u \in {2, 3}, off \in {0, 6, 7, 8}}

\* attendance tables of up to two visits, or three visits of member 2, in
\* the order of their check-in
JobAttendance ==
    {a \in {<<>>} \cup {<<v>> : v \in JobVisits}
                  \cup {<<v, w>> : v \in JobVisits, w \in JobVisits}
                  \cup {<<v, w, x>> : v \in {y \in JobVisits : y.user_id = 2},
                                       w \in {y \in JobVisits : y.user_id = 2},
                                       x \in {y \in JobVisits : y.user_id = 2}} :
        \A i \in 1..(Len(a) - 1) : a[i].check_in.day <= a[i + 1].check_in.day}

\* no notification, or an attendance reminder that member 2 got 3 days ago
JobNotes ==
    {<<>>,
     <<[user_id |-> 2, type |-> "attendance", message |-> AttendanceMessage,
        is_read |-> FALSE,
        created_at |-> [day |-> JobDay - 3, hour |-> DAILY_RUN_HOUR]]>>}

JobInit ==
    /\ now = [day |-> JobDay, hour |-> DAILY_RUN_HOUR]
    /\ users = InitUsers
    /\ plans = JobPlans
    /\ health_metrics = <<>>
    /\ \/ /\ memberships \in JobMemberships
          /\ attendance = <<>>
          /\ notifications \in JobRenewals
       \/ /\ memberships = <<>>
          /\ attendance \in JobAttendance
          /\ notifications \in JobNotes
    /\ lastDailyRunKey = NULL
    /\ dayLog = NewDay
    /\ lastRun = NoRun
    /\ restartLog = NoLog
    /\ inflight = NoneInFlight
    /\ sessions = {}

JobNext ==
    \/ \E f \in FailPoints, k \in 0..MaxInserts, down \in MailDown :
          runHourlyTasks(f, k, down)
    \/ \E f \in FailPoints, k \in 0..MaxInserts, down \in MailDown :
          runDaily(f, k, down)

SpecJob == JobInit /\ [][JobNext]_vars

----------------------------------------------------------------------------
(* The restart specification: the scheduler with the restarts and the runs  *)
(* of each day counted.                                                      *)

RestartInit ==
    /\ now = [day |-> 1, hour |-> DAILY_RUN_HOUR - 1]
    /\ users = InitUsers
    /\ plans = InitPlans
    /\ \E reqs \in InitRequests : memberships = SubscribeAll(<<>>, InitPlans, reqs, 1)
    /\ attendance = <<>>
    /\ notifications = <<>>
    /\ health_metrics = <<>>
    /\ lastDailyRunKey = NULL
    /\ dayLog = NewDay
    /\ lastRun = NoRun
    /\ restartLog = NewLog
    /\ inflight = NoneInFlight
    /\ sessions = {}

RestartNext ==
    \/ NextHour
    \/ NextDay(MaxDay)
    \/ \E f \in FailPoints, k \in 0..MaxInserts : runHourlyTasks(f, k, {})
    \/ runDaily("none", 0, {})
    \/ Restart

SpecRestart == RestartInit /\ [][RestartNext]_vars

----------------------------------------------------------------------------
(* Handlers step by step: every await of a handler is a point where another *)
(* handler can run.  Node runs one handler at a time between two awaits.     *)

RaceInit ==
    /\ now = [day |-> 1, hour |-> DAILY_RUN_HOUR]
    /\ users = InitUsers
    /\ plans = InitPlans
    /\ memberships = SubscribeAll(<<>>, InitPlans, << <<2, 1>> >>, 1)
    /\ attendance = <<>>
    /\ notifications = <<>>
    /\ health_metrics = <<>>
    /\ lastDailyRunKey = NULL
    /\ dayLog = NewDay
    /\ lastRun = NoRun
    /\ restartLog = NoLog
    /\ inflight = NoneInFlight
    /\ sessions = {}

\* POST /attendance/checkin arrives: isAuth, and the deactivated-user middleware
CheckinArrives(r, userId) ==
    /\ inflight[r] = Idle
    /\ users[userId].is_active
    /\ inflight' = [inflight EXCEPT ![r] = [op |-> "checkin", userId |-> userId,
                                            pc |-> "lookup"]]
    /\ UNCHANGED <<now, users, plans, memberships, attendance, notifications,
                   health_metrics, lastDailyRunKey, dayLog, lastRun, restartLog, sessions>>

\* const [[open]] = await pool.execute('SELECT * FROM attendance WHERE ... check_out IS NULL ...')
\* if (open) return res.redirect('/attendance')
CheckinLookup(r) ==
    /\ inflight[r].op = "checkin" /\ inflight[r].pc = "lookup"
    /\ inflight' = [inflight EXCEPT ![r] =
                        IF OpenEntry(attendance, inflight[r].userId) # {}
                        THEN Idle ELSE [@ EXCEPT !.pc = "insert"]]
    /\ UNCHANGED <<now, users, plans, memberships, attendance, notifications,
                   health_metrics, lastDailyRunKey, dayLog, lastRun, restartLog, sessions>>

\* await pool.execute('INSERT INTO attendance (user_id, check_in, method) VALUES (?, NOW(), ?)')
CheckinInsert(r) ==
    /\ inflight[r].op = "checkin" /\ inflight[r].pc = "insert"
    /\ attendance' = Append(attendance, [user_id |-> inflight[r].userId,
                                         check_in |-> now, check_out |-> NULL])
    /\ inflight' = [inflight EXCEPT ![r] = Idle]
    /\ lastRun' = [NoRun EXCEPT !.op = "checkin", !.before = attendance,
                                !.req = <<inflight[r].userId>>]
    /\ UNCHANGED <<now, users, plans, memberships, notifications,
                   health_metrics, lastDailyRunKey, dayLog, restartLog, sessions>>

CheckinRaceNext ==
    \/ \E r \in Requests, u \in UserIds :
          Len(attendance) < MaxVisits /\ CheckinArrives(r, u)
    \/ \E r \in Requests : CheckinLookup(r)
    \/ \E r \in Requests : CheckinInsert(r)
    \/ \E u \in UserIds : Checkout(u)
    \/ NextDay(MaxDay)

SpecCheckinRace == RaceInit /\ [][CheckinRaceNext]_vars

\* a job run arrives: a cron tick (runHourlyTasks) or GET /admin/run-daily.
\* await activateExpireTasks(); the gate of the tick; the first SELECT of
\* dailyNotificationTasks
JobStart(r, kind) ==
    LET ms2 == activateExpireTasks(memberships, now.day)
        runs == kind = "manual" \/ shouldRunDaily(now, lastDailyRunKey)
    IN  /\ inflight[r] = Idle
        /\ kind = "tick" => ~dayLog.ticked     \* cron.schedule('0 * * * *'): once an hour
        /\ kind = "manual" =>
              \E a \in DOMAIN users : users[a].role = "admin" /\ users[a].is_active
        /\ dayLog' = [dayLog EXCEPT !.ticked = IF kind = "tick" THEN TRUE ELSE @]
        /\ memberships' = ms2
        /\ inflight' = [inflight EXCEPT ![r] =
                            IF runs
                            THEN [op |-> "job", kind |-> kind, key |-> todayKey(now),
                                  pc |-> "renewal", step |-> "check",
                                  rows |-> expiring(ms2, users, plans, now.day),
                                  us |-> <<>>]
                            ELSE Idle]
        /\ UNCHANGED <<now, users, plans, attendance, notifications,
                       health_metrics, lastDailyRunKey, lastRun, restartLog, sessions>>

\* SELECT id FROM notifications WHERE user_id=? AND type='renewal' AND DATE(created_at)=CURDATE()
JobRenewalCheck(r) ==
    /\ inflight[r].op = "job" /\ inflight[r].pc = "renewal"
    /\ inflight[r].step = "check" /\ inflight[r].rows # <<>>
    /\ inflight' = [inflight EXCEPT ![r] =
                        IF RecentRenewal(notifications,
                                         memberships[Head(inflight[r].rows)].user_id, now.day)
                        THEN [@ EXCEPT !.rows = Tail(@)]
                        ELSE [@ EXCEPT !.step = "insert"]]
    /\ UNCHANGED <<now, users, plans, memberships, attendance, notifications,
                   health_metrics, lastDailyRunKey, dayLog, lastRun, restartLog, sessions>>

\* if (!recent) await addNotification(row.user_id, 'renewal', ...)
JobRenewalInsert(r) ==
    /\ inflight[r].op = "job" /\ inflight[r].pc = "renewal"
    /\ inflight[r].step = "insert"
    /\ LET row == memberships[Head(inflight[r].rows)]
       IN  notifications' = addNotification(notifications, row.user_id, "renewal",
                                RenewalMessage(plans[row.plan_id].name, row.end_date),
                                now, {})
    /\ inflight' = [inflight EXCEPT ![r] = [@ EXCEPT !.rows = Tail(@), !.step = "check"]]
    /\ UNCHANGED <<now, users, plans, memberships, attendance,
                   health_metrics, lastDailyRunKey, dayLog, lastRun, restartLog, sessions>>

\* SELECT id FROM users WHERE role='member' AND is_active=1
JobMembers(r) ==
    /\ inflight[r].op = "job" /\ inflight[r].pc = "renewal"
    /\ inflight[r].rows = <<>>
    /\ inflight' = [inflight EXCEPT ![r] =
                        [@ EXCEPT !.pc = "attendance", !.step = "count",
                                  !.us = members(users)]]
    /\ UNCHANGED <<now, users, plans, memberships, attendance, notifications,
                   health_metrics, lastDailyRunKey, dayLog, lastRun, restartLog, sessions>>

\* SELECT COUNT(*) AS cnt FROM attendance ...; if ((count?.cnt || 0) < 2)
JobCount(r) ==
    /\ inflight[r].op = "job" /\ inflight[r].pc = "attendance"
    /\ inflight[r].step = "count" /\ inflight[r].us # <<>>
    /\ inflight' = [inflight EXCEPT ![r] =
                        IF LowAttendance(AttendanceCount(attendance, Head(inflight[r].us),
                                                         now.day))
                        THEN [@ EXCEPT !.step = "check"]
                        ELSE [@ EXCEPT !.us = Tail(@)]]
    /\ UNCHANGED <<now, users, plans, memberships, attendance, notifications,
                   health_metrics, lastDailyRunKey, dayLog, lastRun, restartLog, sessions>>

\* SELECT id FROM notifications WHERE user_id=? AND type='attendance'
\*   AND created_at >= (NOW() - INTERVAL 7 DAY)
JobAttendanceCheck(r) ==
    /\ inflight[r].op = "job" /\ inflight[r].pc = "attendance"
    /\ inflight[r].step = "check"
    /\ inflight' = [inflight EXCEPT ![r] =
                        IF RecentAttendanceNote(notifications, Head(inflight[r].us), now)
                        THEN [@ EXCEPT !.us = Tail(@), !.step = "count"]
                        ELSE [@ EXCEPT !.step = "insert"]]
    /\ UNCHANGED <<now, users, plans, memberships, attendance, notifications,
                   health_metrics, lastDailyRunKey, dayLog, lastRun, restartLog, sessions>>

\* if (!recent) await addNotification(u.id, 'attendance', ...)
JobAttendanceInsert(r) ==
    /\ inflight[r].op = "job" /\ inflight[r].pc = "attendance"
    /\ inflight[r].step = "insert"
    /\ notifications' = addNotification(notifications, Head(inflight[r].us), "attendance",
                                        AttendanceMessage, now, {})
    /\ inflight' = [inflight EXCEPT ![r] = [@ EXCEPT !.us = Tail(@), !.step = "count"]]
    /\ UNCHANGED <<now, users, plans, memberships, attendance,
                   health_metrics, lastDailyRunKey, dayLog, lastRun, restartLog, sessions>>

\* the job returns: lastDailyRunKey = key (the tick), = todayKey() (the manual trigger)
JobEnd(r) ==
    /\ inflight[r].op = "job" /\ inflight[r].pc = "attendance"
    /\ inflight[r].us = <<>>
    /\ lastDailyRunKey' = IF inflight[r].kind = "tick" THEN inflight[r].key
                          ELSE todayKey(now)
    /\ inflight' = [inflight EXCEPT ![r] = Idle]
    /\ lastRun' = [NoRun EXCEPT !.op = inflight[r].kind, !.ranDaily = TRUE]
    /\ UNCHANGED <<now, users, plans, memberships, attendance, notifications,
                   health_metrics, dayLog, restartLog, sessions>>

JobRaceNext ==
    \/ \E r \in Requests : JobStart(r, "tick")
    \/ JobStart(2, "manual")
    \/ \E r \in Requests : JobRenewalCheck(r)
    \/ \E r \in Requests : JobRenewalInsert(r)
    \/ \E r \in Requests : JobMembers(r)
    \/ \E r \in Requests : JobCount(r)
    \/ \E r \in Requests : JobAttendanceCheck(r)
    \/ \E r \in Requests : JobAttendanceInsert(r)
    \/ \E r \in Requests : JobEnd(r)
    \/ NextHour

SpecJobRace == RaceInit /\ [][JobRaceNext]_vars

----------------------------------------------------------------------------
(* POST /admin/plans/:id/delete *)

\* a membership holds the plan: CONSTRAINT fk_memberships_plan FOREIGN KEY
\* (plan_id) REFERENCES membership_plans (id)
Referenced(ms, id) == \E i \in DOMAIN ms : ms[i].plan_id = id

\* mutant: the DELETE without the foreign key of memberships
DeletePlanUnchecked(ps, ms, id) == [q \in DOMAIN ps \ {id} |-> ps[q]]

\* DELETE FROM membership_plans WHERE id=?: the key has no ON DELETE clause,
\* so InnoDB rejects the statement while a membership holds the plan, and the
\* handler's catch redirects with "Delete failed"
DeletePlan(ps, ms, id) ==
    IF Referenced(ms, id) THEN ps ELSE [q \in DOMAIN ps \ {id} |-> ps[q]]

PlanDelete(id) ==
    /\ \E a \in DOMAIN users : users[a].role = "admin" /\ users[a].is_active  \* isAdmin
    /\ plans' = DeletePlan(plans, memberships, id)
    /\ lastRun' = [NoRun EXCEPT !.op = "plandelete", !.before = memberships,
                                !.req = <<id>>, !.origin = <<plans>>]
    /\ UNCHANGED <<sessions, inflight, restartLog, health_metrics, now, users, memberships,
                   attendance, notifications, lastDailyRunKey, dayLog>>

PlanDeleteNext ==
    \/ \E u \in {1, 2}, p \in PlanIds :
          Len(memberships) < MaxPlanRows /\ Subscribe(u, p)
    \/ \E id \in PlanIds : PlanDelete(id)
    \/ Sweep
    \/ NextDay(MaxDay)

SpecPlanDelete == Init /\ [][PlanDeleteNext]_vars

----------------------------------------------------------------------------
(* Sessions and user management: POST /login, the deactivated-user          *)
(* middleware, POST /admin/users/:id/deactivate and /reactivate              *)

\* the ids an admin can put in the URL: the users, and one that is no user
TargetIds == UserIds \cup {4}

\* two admins and a member, all verified
SessionUsers ==
    (1 :> [role |-> "admin", is_active |-> TRUE, email_verified |-> TRUE]) @@
    (2 :> [role |-> "admin", is_active |-> TRUE, email_verified |-> TRUE]) @@
    (3 :> [role |-> "member", is_active |-> TRUE, email_verified |-> TRUE])

SessionInit ==
    /\ now = [day |-> 1, hour |-> DAILY_RUN_HOUR - 1]
    /\ users = SessionUsers
    /\ plans = InitPlans
    /\ memberships = <<>>
    /\ attendance = <<>>
    /\ notifications = <<>>
    /\ health_metrics = <<>>
    /\ lastDailyRunKey = NULL
    /\ dayLog = NewDay
    /\ lastRun = NoRun
    /\ restartLog = NoLog
    /\ inflight = NoneInFlight
    /\ sessions = {}

\* POST /login from a browser without a session: the user of the email,
\* is_active, the password, email_verified
Login(u, passwordOk) ==
    /\ u \in DOMAIN users
    /\ u \notin sessions
    /\ sessions' = IF users[u].is_active /\ passwordOk /\ users[u].email_verified
                   THEN sessions \cup {u} ELSE sessions
    /\ lastRun' = [NoRun EXCEPT !.op = "login", !.req = <<u>>,
                                !.handled = u \in sessions']
    /\ UNCHANGED <<now, users, plans, memberships, attendance, notifications,
                   health_metrics, lastDailyRunKey, dayLog, restartLog, inflight>>

\* GET /logout
Logout(u) ==
    /\ u \in sessions
    /\ sessions' = sessions \ {u}
    /\ lastRun' = [NoRun EXCEPT !.op = "logout", !.req = <<u>>]
    /\ UNCHANGED <<now, users, plans, memberships, attendance, notifications,
                   health_metrics, lastDailyRunKey, dayLog, restartLog, inflight>>

\* mutant: a failed lookup ends the request like a deactivated user
KickedOutFailClosed(us, u, lookupFails) == lookupFails \/ u \notin DOMAIN us \/ ~us[u].is_active

\* the deactivated-user middleware: the session is destroyed when the lookup
\* returns no user or is_active = 0; when the lookup throws, the catch logs
\* and the request goes on to next()
KickedOut(us, u, lookupFails) ==
    ~lookupFails /\ (u \notin DOMAIN us \/ ~us[u].is_active)

\* a request with the session of u, here POST /attendance/checkin;
\* lookupFails: the SELECT is_active of the middleware throws
SessionCheckin(u, lookupFails) ==
    LET kicked == KickedOut(users, u, lookupFails)
    IN  /\ u \in sessions
        /\ sessions' = IF kicked THEN sessions \ {u} ELSE sessions
        /\ attendance' =
             IF kicked \/ OpenEntry(attendance, u) # {}
             THEN attendance
             ELSE Append(attendance, [user_id |-> u, check_in |-> now, check_out |-> NULL])
        /\ lastRun' = [NoRun EXCEPT !.op = "request", !.req = <<u>>,
                                    !.fail = IF lookupFails THEN "lookup" ELSE "none",
                                    !.before = attendance,
                                    !.handled = ~kicked]
        /\ UNCHANGED <<now, users, plans, memberships, notifications,
                       health_metrics, lastDailyRunKey, dayLog, restartLog, inflight>>

\* a request of an admin reaches its route: the session, the middleware, isAdmin
AdminRequest(self) ==
    /\ self \in sessions
    /\ users[self].is_active
    /\ users[self].role = "admin"

\* mutant: the deactivation without the role check
DeactivateUsersAnyRole(us, self, id) ==
    IF id = self THEN us
    ELSE IF id \notin DOMAIN us THEN us
    ELSE IF ~us[id].is_active THEN us
    ELSE [us EXCEPT ![id].is_active = FALSE]

\* the users table after POST /admin/users/:id/deactivate of admin self
DeactivateUsers(us, self, id) ==
    IF id = self THEN us                              \* Cannot deactivate yourself
    ELSE IF id \notin DOMAIN us THEN us               \* User not found
    ELSE IF us[id].role # "member" THEN us            \* Cannot deactivate admins
    ELSE IF ~us[id].is_active THEN us                 \* Already inactive
    ELSE [us EXCEPT ![id].is_active = FALSE]

\* the users table after POST /admin/users/:id/reactivate
ReactivateUsers(us, id) ==
    IF id \notin DOMAIN us THEN us                    \* User not found
    ELSE IF us[id].role # "member" THEN us            \* Cannot modify admins
    ELSE IF us[id].is_active THEN us                  \* Already active
    ELSE [us EXCEPT ![id].is_active = TRUE]

Deactivate(self, id) ==
    /\ AdminRequest(self)
    /\ users' = DeactivateUsers(users, self, id)
    /\ lastRun' = [NoRun EXCEPT !.op = "deactivate", !.req = <<self, id>>,
                                !.origin = <<users>>]
    /\ UNCHANGED <<now, plans, memberships, attendance, notifications,
                   health_metrics, lastDailyRunKey, dayLog, restartLog, inflight, sessions>>

Reactivate(self, id) ==
    /\ AdminRequest(self)
    /\ users' = ReactivateUsers(users, id)
    /\ lastRun' = [NoRun EXCEPT !.op = "reactivate", !.req = <<self, id>>,
                                !.origin = <<users>>]
    /\ UNCHANGED <<now, plans, memberships, attendance, notifications,
                   health_metrics, lastDailyRunKey, dayLog, restartLog, inflight, sessions>>

SessionNext ==
    \/ \E u \in UserIds, passwordOk \in BOOLEAN : Login(u, passwordOk)
    \/ \E u \in UserIds : Logout(u)
    \/ \E u \in UserIds, lookupFails \in BOOLEAN :
          Len(attendance) < MaxVisits /\ SessionCheckin(u, lookupFails)
    \/ \E self \in UserIds, id \in TargetIds : Deactivate(self, id)
    \/ \E self \in UserIds, id \in TargetIds : Reactivate(self, id)

SpecSession == SessionInit /\ [][SessionNext]_vars

----------------------------------------------------------------------------
(* Email verification: POST /register, GET /verify, POST /resend-verification *)

\* tokens one user is sent in the verification specification
MaxTokens == 2

\* genToken(24): 24 random bytes, taken as never drawn twice: the n-th token
\* generated for user u
Token(u, n) == <<u, n>>

\* the tokens a request can carry
Tokens == {Token(u, n) : u \in UserIds, n \in 1..(MaxTokens + 1)}

\* DATE_ADD(NOW(), INTERVAL 24 HOUR)
Expiry(t) == Stamp(t) + 24

\* the seeded admin: verified, no token; issued counts the tokens generated
\* for the user
VerifyUsers ==
    (1 :> [role |-> "admin", is_active |-> TRUE, email_verified |-> TRUE,
           verification_token |-> NULL, verification_expires |-> NULL, issued |-> 0])

VerifyInit ==
    /\ now = [day |-> 1, hour |-> DAILY_RUN_HOUR - 1]
    /\ users = VerifyUsers
    /\ plans = InitPlans
    /\ memberships = <<>>
    /\ attendance = <<>>
    /\ notifications = <<>>
    /\ health_metrics = <<>>
    /\ lastDailyRunKey = NULL
    /\ dayLog = NewDay
    /\ lastRun = NoRun
    /\ restartLog = NoLog
    /\ inflight = NoneInFlight
    /\ sessions = {}

\* POST /register with a valid form and a new email: the INSERT (role member,
\* email_verified 0 by default), then the UPDATE that stores the token;
\* fail: that UPDATE throws
Register(fail) ==
    LET id == Max(DOMAIN users) + 1                  \* AUTO_INCREMENT
    IN  /\ id \in UserIds
        /\ users' = users @@
             (id :> [role |-> "member", is_active |-> TRUE, email_verified |-> FALSE,
                     verification_token |-> IF fail THEN NULL ELSE <<Token(id, 1)>>,
                     verification_expires |-> IF fail THEN NULL ELSE <<Expiry(now)>>,
                     issued |-> 1])
        /\ lastRun' = [NoRun EXCEPT !.op = "register", !.req = <<id>>, !.threw = fail,
                                    !.origin = <<users>>, !.handled = ~fail]
        /\ UNCHANGED <<now, plans, memberships, attendance, notifications, health_metrics,
                       lastDailyRunKey, dayLog, restartLog, inflight, sessions>>

\* SELECT id, email_verified FROM users WHERE verification_token=?
\*   AND verification_expires >= NOW() LIMIT 1
VerifyLookup(us, token, t) ==
    {u \in DOMAIN us : /\ us[u].verification_token = <<token>>
                       /\ us[u].verification_expires # NULL
                       /\ us[u].verification_expires[1] >= Stamp(t)}

\* mutant: the verify that leaves the token in place
VerifiedKeepingToken(us, u) == [us EXCEPT ![u].email_verified = TRUE]

\* UPDATE users SET email_verified=1, verification_token=NULL,
\*   verification_expires=NULL WHERE id=?
\* (for a verified user the handler clears the token and leaves the flag)
Verified(us, u) ==
    [us EXCEPT ![u].email_verified = TRUE,
               ![u].verification_token = NULL,
               ![u].verification_expires = NULL]

\* GET /verify?token=
Verify(token) ==
    /\ IF VerifyLookup(users, token, now) = {}
       THEN users' = users                           \* Invalid or expired verification link
       ELSE \E u \in VerifyLookup(users, token, now) : users' = Verified(users, u)
    /\ lastRun' = [NoRun EXCEPT !.op = "verify", !.req = <<token>>,
                                !.origin = <<users>>,
                                !.handled = VerifyLookup(users, token, now) # {}]
    /\ UNCHANGED <<now, plans, memberships, attendance, notifications, health_metrics,
                   lastDailyRunKey, dayLog, restartLog, inflight, sessions>>

\* if (user && !user.email_verified): a new token and expiry replace the old
Resent(us, u, t) ==
    IF u \in DOMAIN us /\ ~us[u].email_verified
    THEN [us EXCEPT ![u].verification_token = <<Token(u, us[u].issued + 1)>>,
                    ![u].verification_expires = <<Expiry(t)>>,
                    ![u].issued = @ + 1]
    ELSE us

\* POST /resend-verification with the email of u (or of no user)
Resend(u) ==
    /\ u \in DOMAIN users => users[u].issued <= MaxTokens
    /\ users' = Resent(users, u, now)
    /\ lastRun' = [NoRun EXCEPT !.op = "resend", !.req = <<u>>,
                                !.origin = <<users>>,
                                !.handled = users' # users]
    /\ UNCHANGED <<now, plans, memberships, attendance, notifications, health_metrics,
                   lastDailyRunKey, dayLog, restartLog, inflight, sessions>>

VerifyNext ==
    \/ \E fail \in BOOLEAN : Register(fail)
    \/ \E token \in Tokens : Verify(token)
    \/ \E u \in UserIds : Resend(u)
    \/ NextHour
    \/ NextDay(MaxDay)

SpecVerify == VerifyInit /\ [][VerifyNext]_vars

----------------------------------------------------------------------------
(* POST /notifications/mark-all-read *)

\* mutant: the update without its user_id condition
MarkReadEveryone(ns, userId) ==
    [j \in DOMAIN ns |-> [ns[j] EXCEPT !.is_read = TRUE]]

\* UPDATE notifications SET is_read=1 WHERE user_id=? AND is_read=0
MarkRead(ns, userId) ==
    [j \in DOMAIN ns |->
        IF ns[j].user_id = userId /\ ns[j].is_read = FALSE
        THEN [ns[j] EXCEPT !.is_read = TRUE] ELSE ns[j]]

MarkAllRead(userId) ==
    /\ users[userId].is_active                 \* isAuth, and the deactivated-user middleware
    /\ notifications' = MarkRead(notifications, userId)
    /\ lastRun' = [NoRun EXCEPT !.op = "markread", !.req = <<userId>>]
    /\ UNCHANGED <<sessions, inflight, restartLog, health_metrics, now, users, plans, memberships, attendance,
                   lastDailyRunKey, dayLog>>

----------------------------------------------------------------------------
(* The frame specifications: the handlers that write to the store, each with *)
(* one or two inputs, over a few days.                                       *)

\* the handlers that write notifications, and the ones that make them due
NotesNext ==
    \/ \E u \in {1, 2} : Len(memberships) < MaxPlanRows /\ Subscribe(u, 1)
    \/ NextDay(MaxDay)
    \/ attendance = <<>> /\ Checkin(2)
    \/ \E u \in {1, 2} : MarkAllRead(u)
    \/ runDaily("none", 0, {})

SpecNotes == Init /\ [][NotesNext]_vars

\* the handlers the memberships table can meet
FrameNext ==
    \/ Len(memberships) < MaxPlanRows /\ Subscribe(2, 1)
    \/ Sweep
    \/ NextDay(MaxDay)
    \/ attendance = <<>> /\ Checkin(2)
    \/ Checkout(2)
    \/ /\ HealthSubmit(2, NULL, <<80>>, <<100>>, <<70>>, <<2000>>)
       /\ Len(health_metrics') <= 1
    \/ PlanEdit(1, "day", "4")
    \/ notifications # <<>> /\ MarkAllRead(2)
    \/ notifications = <<>> /\ runDaily("none", 0, {})

SpecFrame == Init /\ [][FrameNext]_vars

----------------------------------------------------------------------------
(* Claims about the lifecycle sweep (SpecLife) *)

\* the memberships a sweep that has just returned was invoked on
Swept == lastRun.op = "sweep"
Before == lastRun.before

\* C1, as stated: every membership that was pending with start_date <= today when
\* activateExpireTasks was invoked, whatever its end_date, is active when the
\* call has returned.
C1_PendingDueIsActive ==
    Swept =>
        \A i \in DOMAIN Before :
            (Before[i].status = "pending" /\ Before[i].start_date <= now.day)
                => memberships[i].status = "active"

\* C1, amended: a membership that was pending with start_date <= today when
\* activateExpireTasks was invoked is active when the call has returned if its
\* end_date >= today, and expired if its end_date < today (the second update
\* of the same call expires it).
C1_PendingDueIsActiveOrExpired ==
    Swept =>
        \A i \in DOMAIN Before :
            (Before[i].status = "pending" /\ Before[i].start_date <= now.day)
                => memberships[i].status =
                     (IF Before[i].end_date >= now.day THEN "active" ELSE "expired")

\* C1 witness: a sweep has just activated a pending membership that was due
C1_Witness ==
    /\ Swept
    /\ \E i \in DOMAIN Before :
          /\ Before[i].status = "pending"
          /\ Before[i].start_date <= now.day
          /\ Before[i].end_date >= now.day
          /\ memberships[i].status = "active"

\* C2: every membership that was active with end_date < today when
\* activateExpireTasks was invoked is expired when the call has returned, and
\* one whose end_date equals today is still active.
C2_ActivePastEndIsExpired ==
    Swept =>
        \A i \in DOMAIN Before :
            Before[i].status = "active" =>
                /\ Before[i].end_date < now.day => memberships[i].status = "expired"
                /\ Before[i].end_date = now.day => memberships[i].status = "active"

\* C2 witness: one sweep has expired an active membership that ended before
\* today and has kept one that ends today
C2_Witness ==
    /\ Swept
    /\ \E i, j \in DOMAIN Before :
          /\ Before[i].status = "active" /\ Before[i].end_date < now.day
          /\ memberships[i].status = "expired"
          /\ Before[j].status = "active" /\ Before[j].end_date = now.day
          /\ memberships[j].status = "active"

\* C3: activateExpireTasks is idempotent: run again with the same today right
\* after a run, it leaves the store exactly as the first run left it.
C3_SweepIdempotent ==
    Swept => activateExpireTasks(memberships, now.day) = memberships

\* C3 witness: a sweep that changed the store has just returned
C3_Witness ==
    /\ Swept
    /\ memberships # Before
    /\ \E i \in DOMAIN Before :
          Before[i].status = "pending" /\ memberships[i].status = "expired"

----------------------------------------------------------------------------
(* Claims about the daily job and the scheduler (Spec, SpecWeek) *)

\* the last step was an hourly tick / a manual trigger
Ticked == lastRun.op = "tick"
Triggered == lastRun.op = "manual"
\* the last step was a run that started the daily job body and completed
CompletedJob == (Ticked \/ Triggered) /\ lastRun.ranDaily /\ lastRun.fail = "none"

RenewalsOf(u, d) ==
    {j \in DOMAIN notifications : /\ notifications[j].user_id = u
                                  /\ notifications[j].type = "renewal"
                                  /\ notifications[j].created_at.day = d}

AttendanceNotesOf(u) ==
    {j \in DOMAIN notifications : /\ notifications[j].user_id = u
                                  /\ notifications[j].type = "attendance"}

\* the active memberships of u that a renewal reminder is due for today
DueMemberships(u) ==
    {i \in DOMAIN memberships : /\ memberships[i].user_id = u
                                /\ memberships[i].status = "active"
                                /\ memberships[i].end_date - now.day \in {3, 1, 0}}

\* C4: after any sequence of job runs executed one after another (ticks,
\* manual triggers, runs after a restart, failed runs), every user has at most
\* one renewal notification created on any given calendar day.
C4_OneRenewalPerUserPerDay ==
    \A i, j \in DOMAIN notifications :
        ( /\ i # j
          /\ notifications[i].type = "renewal" /\ notifications[j].type = "renewal"
          /\ notifications[i].user_id = notifications[j].user_id )
            => notifications[i].created_at.day # notifications[j].created_at.day

\* C4 witness: the job has been run again by hand on a day it had already
\* completed, for a user with two memberships due today, and that user has
\* one renewal notification of today
C4_Witness ==
    /\ Triggered /\ CompletedJob /\ lastRun.keyWasToday
    /\ \E u \in UserIds :
          /\ Cardinality(DueMemberships(u)) >= 2
          /\ Cardinality(RenewalsOf(u, now.day)) = 1

\* a member the attendance loop looks at who is below the threshold of 2
BelowThreshold(u) ==
    /\ users[u].role = "member" /\ users[u].is_active
    /\ Cardinality({j \in DOMAIN attendance :
                       /\ attendance[j].user_id = u
                       /\ attendance[j].check_in.day >= now.day - 7}) < 2

\* C5: two attendance notifications of one user are never created within 7
\* days of each other (a run while one is that recent inserts nothing), and
\* when a run of the daily job has completed, every member below the
\* threshold has one created within the trailing 7 days (the run inserted a
\* new one if the latest was older).
C5_AttendanceOncePerWeek ==
    /\ \A u \in UserIds : \A i, j \in AttendanceNotesOf(u) :
          i < j => Stamp(notifications[j].created_at)
                      > Stamp(notifications[i].created_at) + 7 * 24
    /\ CompletedJob =>
          \A u \in UserIds :
              BelowThreshold(u) =>
                  \E j \in AttendanceNotesOf(u) :
                      Stamp(notifications[j].created_at) >= Stamp(now) - 7 * 24

\* C5 witness: a run has just inserted a second attendance notification for a
\* user whose first one is of day 1, more than 7 days ago
C5_Witness ==
    /\ CompletedJob
    /\ \E u \in UserIds : \E i, j \in AttendanceNotesOf(u) :
          /\ notifications[i].created_at.day = 1
          /\ notifications[j].created_at = now
          /\ now.day >= 9

\* C6: within one process lifetime, ticks complete the daily job body at most
\* once per calendar day.
C6_DailyBodyOncePerDay == dayLog.tickRuns <= 1

\* C6 witness: after a tick completed the daily job today, a later tick at or
\* after DAILY_RUN_HOUR has run and skipped it
C6_Witness ==
    /\ dayLog.tickRuns = 1
    /\ Ticked /\ lastRun.fail = "none" /\ ~lastRun.ranDaily
    /\ now.hour > DAILY_RUN_HOUR

\* the gate as the tick found it
GateWasOpen == now.hour >= DAILY_RUN_HOUR /\ ~lastRun.keyWasToday
LifecycleFailed == lastRun.fail \in {"activate", "expire"}

\* C7, as stated: an hourly tick runs the daily job body if and only if the
\* hour is >= DAILY_RUN_HOUR and lastDailyRunKey differs from today's key.
C7_TickRunsIffGateOpen ==
    Ticked => (lastRun.ranDaily <=> GateWasOpen)

\* C7, amended: an hourly tick whose lifecycle updates succeed runs the daily
\* job body if and only if the hour is >= DAILY_RUN_HOUR and lastDailyRunKey
\* differs from today's key; a tick whose lifecycle updates fail never runs it.
C7_TickRunsIffGateOpenAndSwept ==
    Ticked => (lastRun.ranDaily <=> (GateWasOpen /\ ~LifecycleFailed))

\* C7 witness: a tick at exactly DAILY_RUN_HOUR has found yesterday's key and
\* has run the daily job body (which failed, so the stale key is still there)
C7_Witness ==
    /\ Ticked /\ lastRun.ranDaily /\ lastRun.keyKept
    /\ now.hour = DAILY_RUN_HOUR
    /\ lastDailyRunKey = <<now.day - 1>>

\* a tick in which a store operation failed left the key alone and threw nothing
FailedTickHarmless ==
    (Ticked /\ lastRun.fail # "none") => (lastRun.keyKept /\ ~lastRun.threw)

\* the last step was the first tick after a failed tick of the same day, at
\* or after DAILY_RUN_HOUR
RetryTick == Ticked /\ lastRun.retry /\ now.hour >= DAILY_RUN_HOUR

\* C8, as stated: a failed tick leaves lastDailyRunKey unchanged and throws
\* nothing, and the next tick of the same day at hour >= DAILY_RUN_HOUR runs
\* the daily job body again.
C8_FailedTickIsRetried ==
    /\ FailedTickHarmless
    /\ RetryTick => lastRun.ranDaily

\* C8, amended: a failed tick leaves lastDailyRunKey unchanged and throws
\* nothing, and the next tick of the same day at hour >= DAILY_RUN_HOUR runs
\* the daily job body if and only if lastDailyRunKey still differs from
\* today's key and its own lifecycle updates succeed.
C8_FailedTickIsRetriedIfGateOpen ==
    /\ FailedTickHarmless
    /\ RetryTick => (lastRun.ranDaily <=> (~lastRun.keyWasToday /\ ~LifecycleFailed))

\* C8 witness: the tick after a failed tick has run the daily job body and
\* completed it
C8_Witness ==
    /\ RetryTick /\ CompletedJob /\ ~lastRun.keyKept
    /\ lastDailyRunKey = <<now.day>>

\* C9: once lastDailyRunKey is today's key, no tick and no manual trigger,
\* failed or not, changes it while the day lasts.
C9_KeyOfTodayStays ==
    ((Ticked \/ Triggered) /\ lastRun.keyWasToday)
        => (lastRun.keyKept /\ lastDailyRunKey = <<now.day>>)

\* C9 witness: a manual trigger has failed on a day whose key was already set
C9_Witness ==
    /\ Triggered /\ lastRun.keyWasToday /\ lastRun.fail # "none"
    /\ lastDailyRunKey = <<now.day>>

\* what a completed manual trigger leaves behind: the memberships swept, the
\* renewal reminders of the memberships due after the sweep inserted, the key
\* of today
ManualTriggerRanAll ==
    (Triggered /\ lastRun.fail = "none") =>
        /\ lastRun.ranDaily
        /\ lastDailyRunKey = <<now.day>>
        /\ \A i \in DOMAIN memberships :
              /\ ~(memberships[i].status = "pending" /\ memberships[i].start_date <= now.day)
              /\ ~(memberships[i].status = "active" /\ memberships[i].end_date < now.day)
        /\ \A u \in UserIds :
              (users[u].is_active /\ DueMemberships(u) # {}) => RenewalsOf(u, now.day) # {}

----------------------------------------------------------------------------
(* Claims about the send step of addNotification (Spec) *)

\* a run of the daily job that reached its end
JobCompleted ==
    (Ticked \/ Triggered) /\ lastRun.ranDaily /\ lastRun.fail = "none"

\* the notifications table before the last run
NotificationsBefore == SubSeq(notifications, 1, lastRun.nBefore)

\* C11: when the send step of addNotification fails, the row inserted just
\* before stays in the store, nothing is thrown, and the daily job goes on
\* with the remaining users and completes: a completed run leaves exactly the
\* rows of a run in which every send succeeds, and the key of today.
C11_SendFailureIsSwallowed ==
    JobCompleted =>
        /\ ~lastRun.threw
        /\ lastDailyRunKey = todayKey(now)
        /\ notifications =
              dailyNotificationTasks(memberships, users, plans, attendance,
                                     NotificationsBefore, now, {})

\* C11 witness: a tick has completed the daily job although the send to one
\* user failed; that user's row is in the store and a row of another user
\* was inserted after it in the same run
C11_Witness ==
    /\ Ticked /\ JobCompleted /\ lastRun.mailFailed
    /\ \E i, j \in (lastRun.nBefore + 1)..Len(notifications) :
          /\ i < j
          /\ notifications[i].user_id \in UNION MailDown
          /\ notifications[j].user_id \notin UNION MailDown

----------------------------------------------------------------------------
(* Claims about who the daily job notifies (SpecJob) *)

\* the rows the last run inserted
Created == (lastRun.nBefore + 1)..Len(notifications)

CreatedFor(u, type) ==
    {j \in Created : notifications[j].user_id = u /\ notifications[j].type = type}

\* the memberships of u that the job finds active and ending in 3, 1 or 0 days
DueRenewals(u) ==
    {i \in DOMAIN memberships :
        /\ memberships[i].user_id = u
        /\ memberships[i].status = "active"
        /\ memberships[i].end_date - now.day \in {3, 1, 0}}

\* u had a renewal reminder of today before the run
RenewedToday(u) ==
    \E j \in DOMAIN NotificationsBefore :
        /\ NotificationsBefore[j].user_id = u
        /\ NotificationsBefore[j].type = "renewal"
        /\ NotificationsBefore[j].created_at.day = now.day

\* C12: a run of the daily job creates a renewal notification for user U if
\* and only if U is not deactivated, has an active membership ending in 3, 1
\* or 0 days and has no renewal notification of today; the message names the
\* plan and the end date of such a membership.
C12_RenewalIffDue ==
    JobCompleted =>
        \A u \in UserIds :
            /\ (CreatedFor(u, "renewal") # {}) <=>
                  (users[u].is_active /\ DueRenewals(u) # {} /\ ~RenewedToday(u))
            /\ \A j \in CreatedFor(u, "renewal") :
                  \E i \in DueRenewals(u) :
                      notifications[j].message =
                          RenewalMessage(plans[memberships[i].plan_id].name,
                                         memberships[i].end_date)

\* C12 witness: a completed run has reminded member 2 of a membership that
\* ends in 3 days, next to an active membership of the same member that ends
\* in 2 days, and has not reminded the deactivated member
C12_Witness ==
    /\ JobCompleted
    /\ \E i \in DueRenewals(2) : memberships[i].end_date = now.day + 3
    /\ \E j \in CreatedFor(2, "renewal") : notifications[j].message.end_date = now.day + 3
    /\ \E i \in DOMAIN memberships :
          /\ memberships[i].user_id = 2 /\ memberships[i].status = "active"
          /\ memberships[i].end_date = now.day + 2

\* the visits of u checked in on one of the days from..to
VisitsIn(u, from, to) ==
    {j \in DOMAIN attendance :
        /\ attendance[j].user_id = u
        /\ attendance[j].check_in.day \in from..to}

\* u had no attendance reminder before the run
NeverReminded(u) ==
    \A j \in DOMAIN NotificationsBefore :
        ~(NotificationsBefore[j].user_id = u /\ NotificationsBefore[j].type = "attendance")

IsActiveMember(u) == users[u].role = "member" /\ users[u].is_active

\* C13: the daily job treats an active member as due for an attendance
\* reminder exactly when the member has fewer than 2 attendance entries in the
\* trailing window (the days the query counts: today and the 7 days before);
\* a deactivated member is never due.  A member never reminded before gets a
\* reminder if and only if due.
C13_DueBelowTwoVisits ==
    JobCompleted =>
        \A u \in UserIds :
            NeverReminded(u) =>
                ((CreatedFor(u, "attendance") # {}) <=>
                    (IsActiveMember(u)
                        /\ Cardinality(VisitsIn(u, now.day - 7, now.day)) < 2))

\* C13 witness: a completed run has reminded member 2, who has one visit in
\* the window, and not member 3, deactivated, who has one too
C13_Witness ==
    /\ JobCompleted
    /\ NeverReminded(2) /\ NeverReminded(3)
    /\ Cardinality(VisitsIn(2, now.day - 6, now.day)) = 1
    /\ Cardinality(VisitsIn(3, now.day - 6, now.day)) = 1
    /\ CreatedFor(2, "attendance") # {}
    /\ CreatedFor(3, "attendance") = {}

\* C14, as stated: the window counts exactly the entries checked in on a day
\* d with today-7 < d <= today; an entry of exactly today-7 is not counted.
\* A member never reminded before gets a reminder if and only if fewer than
\* 2 entries lie on those days.
C14_WindowExcludesSeventhDay ==
    JobCompleted =>
        \A u \in UserIds :
            (NeverReminded(u) /\ IsActiveMember(u)) =>
                ((CreatedFor(u, "attendance") # {}) <=>
                    Cardinality(VisitsIn(u, now.day - 6, now.day)) < 2)

----------------------------------------------------------------------------
(* Claims about POST /subscribe (SpecLife) *)

\* two memberships whose [start_date, end_date] ranges share a day
Overlap(a, b) == a.start_date <= b.end_date /\ b.start_date <= a.end_date

\* C15, as stated: after subscribe requests and sweeps handled one after
\* another, no two pending or active memberships of one user overlap.
C15_NoOverlapInChain ==
    \A i, j \in DOMAIN memberships :
        (/\ i < j
         /\ memberships[i].user_id = memberships[j].user_id
         /\ memberships[i].status # "expired"
         /\ memberships[j].status # "expired")
            => ~Overlap(memberships[i], memberships[j])

Subscribed == lastRun.op = "subscribe"

\* the active memberships of the subscriber that had not ended, before the request
HeldBefore ==
    {i \in DOMAIN Before :
        /\ Before[i].user_id = lastRun.req[1]
        /\ Before[i].status = "active"
        /\ Before[i].end_date >= now.day}

\* C16: a successful subscribe creates exactly one membership: pending, from
\* the day after the latest end_date of the user's active memberships that
\* have not ended, if there is one, and active from today otherwise; a
\* subscribe to a plan that does not exist creates nothing.
C16_SubscribeCreatesOne ==
    Subscribed =>
        IF lastRun.req[2] \notin DOMAIN plans
        THEN memberships = Before
        ELSE /\ Len(memberships) = Len(Before) + 1
             /\ SubSeq(memberships, 1, Len(Before)) = Before
             /\ LET new == memberships[Len(memberships)]
                IN  /\ new.user_id = lastRun.req[1]
                    /\ new.plan_id = lastRun.req[2]
                    /\ new.end_date =
                          new.start_date + plans[new.plan_id].duration_days - 1
                    /\ IF HeldBefore # {}
                       THEN /\ new.status = "pending"
                            /\ \E i \in HeldBefore : new.start_date = Before[i].end_date + 1
                            /\ \A i \in HeldBefore : new.start_date > Before[i].end_date
                       ELSE /\ new.status = "active"
                            /\ new.start_date = now.day

\* C16 witness: a subscriber whose only active membership ended yesterday and
\* has not been swept yet got a membership that is active from today
C16_Witness ==
    /\ Subscribed /\ lastRun.req[2] \in DOMAIN plans
    /\ HeldBefore = {}
    /\ \E i \in DOMAIN Before :
          /\ Before[i].user_id = lastRun.req[1]
          /\ Before[i].status = "active"
          /\ Before[i].end_date = now.day - 1
    /\ memberships[Len(memberships)].status = "active"
    /\ memberships[Len(memberships)].start_date = now.day

----------------------------------------------------------------------------
(* Claims about plans and memberships (SpecPlans) *)

\* C17, as stated: after plan creations, plan edits and subscribe requests,
\* every membership in the store has end_date >= start_date.
C17_EndNotBeforeStart ==
    \A i \in DOMAIN memberships :
        memberships[i].end_date >= memberships[i].start_date

----------------------------------------------------------------------------
(* Claims about attendance (SpecAttend) *)

\* the entries of u whose check_out is null
OpenOf(att, u) == {i \in DOMAIN att : att[i].user_id = u /\ att[i].check_out = NULL}

\* C18: after check-in and check-out requests handled one after another,
\* every user has at most one attendance entry whose check_out is null, and a
\* check-in while an entry is open inserts nothing.
C18_OneOpenEntry ==
    /\ \A u \in UserIds : Cardinality(OpenOf(attendance, u)) <= 1
    /\ (lastRun.op = "checkin" /\ OpenOf(lastRun.before, lastRun.req[1]) # {})
          => attendance = lastRun.before

\* C18 witness: a check-in on the day after the user's entry was opened, with
\* that entry still open, has inserted nothing
C18_Witness ==
    /\ lastRun.op = "checkin"
    /\ attendance = lastRun.before
    /\ \E i \in OpenOf(attendance, lastRun.req[1]) : attendance[i].check_in.day < now.day

\* what one step may do to the attendance table: append the entry of a
\* check-in, open, checked in now by the requester; or set the check_out of an
\* open entry of the user who checks out; nothing else, and nothing when the
\* user who checks out has no open entry
AttendanceStep ==
    /\ Len(attendance') >= Len(attendance)
    /\ \A i \in DOMAIN attendance :
          \/ attendance'[i] = attendance[i]
          \/ /\ lastRun'.op = "checkout"
             /\ attendance[i].user_id = lastRun'.req[1]
             /\ attendance[i].check_out = NULL
             /\ attendance'[i] = [attendance[i] EXCEPT !.check_out = <<now>>]
             /\ \A j \in DOMAIN attendance \ {i} : attendance'[j] = attendance[j]
    /\ Len(attendance') > Len(attendance) =>
          /\ lastRun'.op = "checkin"
          /\ attendance' = Append(attendance, [user_id |-> lastRun'.req[1],
                                               check_in |-> now, check_out |-> NULL])
    /\ (lastRun'.op = "checkout" /\ OpenOf(attendance, lastRun'.req[1]) = {})
          => attendance' = attendance

\* C19: an attendance entry is created only by check-in, is never deleted,
\* and its check_out is set at most once: check-out sets it on the user's open
\* entry only, never alters a closed entry or an entry of another user, and
\* does nothing when the user has no open entry.
C19_AttendanceHistory == [][AttendanceStep]_vars

\* C19 witness: a check-out has closed the user's open entry while an entry
\* of the same user closed earlier and an open entry of another user are as
\* they were
C19_Witness ==
    /\ lastRun.op = "checkout"
    /\ attendance # lastRun.before
    /\ \E i, j, k \in DOMAIN attendance :
          /\ attendance[i].user_id = lastRun.req[1]
          /\ attendance[i].check_out = <<now>> /\ lastRun.before[i].check_out = NULL
          /\ attendance[j].user_id = lastRun.req[1]
          /\ attendance[j].check_out # NULL /\ attendance[j].check_out # <<now>>
          /\ attendance[k].user_id # lastRun.req[1]
          /\ attendance[k].check_out = NULL

----------------------------------------------------------------------------
(* Claims about health metrics (SpecHealth) *)

\* the rows of hm for user u and date d
MetricsOf(hm, u, d) == {i \in DOMAIN hm : hm[i].user_id = u /\ hm[i].entry_date = d}

\* b is the BMI of weight w (kg) and height h (cm), in hundredths, rounded
IsBMI(b, h, w) ==
    IF Falsy(h) \/ Falsy(w) THEN b = NULL
    ELSE /\ b # NULL
         /\ 2 * b[1] * h[1] * h[1] - 2 * w[1] * 1000000 <= h[1] * h[1]
         /\ 2 * w[1] * 1000000 - 2 * b[1] * h[1] * h[1] <= h[1] * h[1]

\* the height the user's metrics knew before the submission: that of the
\* metric with the latest entry_date among those that have one, else none
KnownHeight(hm, u, h) ==
    IF \A i \in DOMAIN hm : hm[i].user_id = u => hm[i].height_cm = NULL
    THEN h = NULL
    ELSE \E i \in DOMAIN hm :
            /\ hm[i].user_id = u /\ hm[i].height_cm = h /\ h # NULL
            /\ \A j \in DOMAIN hm :
                  (hm[j].user_id = u /\ hm[j].height_cm # NULL)
                      => hm[j].entry_date <= hm[i].entry_date

\* what a submission does, apart from the height it stores: one metric per
\* (user, entry_date); the metric of the submission has its weight, heart
\* rate and calorie intake, and the BMI of its weight and the stored height;
\* the metrics of other dates and other users are as they were
SubmissionStored ==
    LET req == lastRun'.req
    IN  /\ \A i, j \in DOMAIN health_metrics' :
              (/\ health_metrics'[i].user_id = health_metrics'[j].user_id
               /\ health_metrics'[i].entry_date = health_metrics'[j].entry_date) => i = j
        /\ MetricsOf(health_metrics', req[1], req[2]) # {}
        /\ \A i \in MetricsOf(health_metrics', req[1], req[2]) :
              /\ health_metrics'[i].weight_kg = req[3]
              /\ health_metrics'[i].heart_rate_bpm = req[5]
              /\ health_metrics'[i].calories_intake = req[6]
              /\ IsBMI(health_metrics'[i].bmi, health_metrics'[i].height_cm, req[3])
        /\ \A i \in DOMAIN health_metrics :
              i \notin MetricsOf(health_metrics, req[1], req[2])
                  => health_metrics'[i] = health_metrics[i]
        /\ Len(health_metrics') =
              IF MetricsOf(health_metrics, req[1], req[2]) = {}
              THEN Len(health_metrics) + 1 ELSE Len(health_metrics)

\* the stored height is the height of the submission (none when left out)
HeightAsSubmitted ==
    LET req == lastRun'.req
    IN  \A i \in MetricsOf(health_metrics', req[1], req[2]) :
            health_metrics'[i].height_cm = IF Falsy(req[4]) THEN NULL ELSE req[4]

\* the stored height is the height of the submission, or, when left out, the
\* height the user's metrics knew
HeightOrKnown ==
    LET req == lastRun'.req
    IN  \A i \in MetricsOf(health_metrics', req[1], req[2]) :
            IF Falsy(req[4])
            THEN KnownHeight(health_metrics, req[1], health_metrics'[i].height_cm)
            ELSE health_metrics'[i].height_cm = req[4]

\* C20, as stated: at most one metric per (user, entry_date); a second
\* submission for the same user and date replaces weight, height, heart rate,
\* calorie intake and BMI with those of the second, the BMI computed from the
\* height and weight of the second submission and null when either is
\* missing; other dates and users are unchanged.
C20_SecondSubmissionReplaces ==
    [][lastRun'.op = "health" =>
          /\ SubmissionStored
          /\ MetricsOf(health_metrics, lastRun'.req[1], lastRun'.req[2]) # {}
                => HeightAsSubmitted]_vars

\* C20, amended: as stated, but a submission without a height stores the
\* user's latest known height (that of the metric with the greatest
\* entry_date that has one, the replaced metric included) and computes the
\* BMI from it; the BMI is null when the weight or that height is missing or 0.
C20_SubmissionReplacesWithKnownHeight ==
    [][lastRun'.op = "health" => (SubmissionStored /\ HeightOrKnown)]_vars

\* C20 witness: a second submission for today, without a height, has replaced
\* the metric of today; it has the height of the user's metric of day 2 and a
\* BMI
C20_Witness ==
    /\ lastRun.op = "health"
    /\ Len(health_metrics) = lastRun.nBefore
    /\ lastRun.req[2] = now.day /\ lastRun.req[4] = NULL
    /\ \E i, j \in DOMAIN health_metrics :
          /\ health_metrics[i].user_id = lastRun.req[1]
          /\ health_metrics[i].entry_date = now.day
          /\ health_metrics[j].user_id = lastRun.req[1]
          /\ health_metrics[j].entry_date > now.day
          /\ health_metrics[j].height_cm = <<200>>
          /\ health_metrics[i].height_cm = <<200>>
          /\ health_metrics[i].bmi = <<2000>>

----------------------------------------------------------------------------
(* Claims about what the handlers leave alone (SpecFrame) *)

\* what one step may do to the notifications table: append rows, and set the
\* read flag of unread rows of the user who marks all read, of all of them
NotificationStep ==
    /\ Len(notifications') >= Len(notifications)
    /\ \A j \in DOMAIN notifications :
          /\ notifications'[j].user_id = notifications[j].user_id
          /\ notifications'[j].type = notifications[j].type
          /\ notifications'[j].message = notifications[j].message
          /\ notifications'[j].created_at = notifications[j].created_at
          /\ notifications'[j].is_read # notifications[j].is_read =>
                /\ notifications[j].is_read = FALSE
                /\ lastRun'.op = "markread"
                /\ notifications[j].user_id = lastRun'.req[1]
    /\ lastRun'.op = "markread" =>
          /\ Len(notifications') = Len(notifications)
          /\ \A j \in DOMAIN notifications :
                notifications[j].user_id = lastRun'.req[1] => notifications'[j].is_read

\* C21: no operation changes the user, type or message of an existing
\* notification or deletes it; the read flag changes only from unread to
\* read and only through mark-all-read of the owning user, which marks all of
\* that user's unread notifications read and leaves other users' alone.
C21_NotificationsOnlyMarkedRead == [][NotificationStep]_vars

\* C21 witness: a user has marked all read; the user's notifications are read
\* and an unread notification of another user is still unread
C21_Witness ==
    /\ lastRun.op = "markread"
    /\ \E i, j \in DOMAIN notifications :
          /\ notifications[i].user_id = lastRun.req[1] /\ notifications[i].is_read
          /\ notifications[j].user_id # lastRun.req[1] /\ ~notifications[j].is_read

\* what one step may do to the memberships table: append the row of a
\* subscribe, or change the status of rows in a lifecycle sweep (alone, in a
\* tick or in a manual trigger)
MembershipStep ==
    /\ Len(memberships') >= Len(memberships)
    /\ Len(memberships') > Len(memberships) =>
          /\ lastRun'.op = "subscribe"
          /\ SubSeq(memberships', 1, Len(memberships)) = memberships
    /\ \A i \in DOMAIN memberships :
          /\ memberships'[i].user_id = memberships[i].user_id
          /\ memberships'[i].plan_id = memberships[i].plan_id
          /\ memberships'[i].start_date = memberships[i].start_date
          /\ memberships'[i].end_date = memberships[i].end_date
          /\ memberships'[i].status # memberships[i].status =>
                lastRun'.op \in {"sweep", "tick", "manual"}

\* C30: existing memberships are changed only by the lifecycle sweep, and the
\* sweep changes only their status: subscribe, check-in, check-out, health
\* submission, plan edit and notification operations leave them as they are.
C30_MembershipsChangedBySweepOnly == [][MembershipStep]_vars

\* C30 witness: a membership was expired by a sweep and its plan was then
\* edited to another duration; the membership has kept its dates
C30_Witness ==
    /\ lastRun.op = "plan"
    /\ plans[1].duration_days = 4
    /\ \E i \in DOMAIN memberships :
          /\ memberships[i].plan_id = 1
          /\ memberships[i].status = "expired"
          /\ memberships[i].end_date = memberships[i].start_date

----------------------------------------------------------------------------
(* Claims about the order of a tick (Spec) *)

\* C22: every hourly tick performs the lifecycle updates, also before
\* DAILY_RUN_HOUR and on a day whose daily job has run, and within a tick they
\* are complete before the gate and the daily job body: the renewal reminders
\* of the tick are those of the memberships as the sweep has left them.
C22_TickSweepsBeforeGate ==
    (Ticked /\ ~LifecycleFailed) =>
        /\ memberships = activateExpireTasks(lastRun.before, now.day)
        /\ \A j \in Created :
              notifications[j].type = "renewal" =>
                  DueRenewals(notifications[j].user_id) # {}
        /\ CompletedJob =>
              \A u \in UserIds :
                  (users[u].is_active /\ DueRenewals(u) # {}) =>
                      RenewalsOf(u, now.day) # {}

\* C22 witness: a tick has reminded a user of a membership that was pending
\* when the tick began, and of no other
C22_Witness ==
    /\ Ticked /\ CompletedJob
    /\ \E u \in UserIds :
          /\ CreatedFor(u, "renewal") # {}
          /\ \A i \in DueRenewals(u) : lastRun.before[i].status = "pending"

----------------------------------------------------------------------------
(* Claims about the order of the two updates (SpecLife) *)

SweepDays == 1..(MaxLifeDay + 1)

\* a pending membership that has started and ended before today
PendingPastEnd(ms, today) ==
    {i \in DOMAIN ms : /\ ms[i].status = "pending"
                       /\ ms[i].start_date <= today
                       /\ ms[i].end_date < today}

\* C23 (as stated): for every membership store and every today, the expire
\* update before the activate update yields the same store as activate
\* before expire.
C23_UpdatesCommute ==
    \A today \in SweepDays :
        activateExpireTasksSwapped(memberships, today) = activateExpireTasks(memberships, today)

\* C23 (amended): the two orders yield the same store exactly when no pending
\* membership has start_date <= today and end_date < today; such a membership
\* ends expired when activate runs first and active when expire runs first,
\* and every other membership ends the same in both orders.
C23_UpdatesCommuteUnlessPendingPastEnd ==
    \A today \in SweepDays :
        LET ae == activateExpireTasks(memberships, today)
            ea == activateExpireTasksSwapped(memberships, today)
        IN  /\ (ea = ae) <=> (PendingPastEnd(memberships, today) = {})
            /\ \A i \in DOMAIN memberships :
                  IF i \in PendingPastEnd(memberships, today)
                  THEN ae[i].status = "expired" /\ ea[i].status = "active"
                  ELSE ea[i] = ae[i]

\* C23 witness: a store in which today's sweep activates one membership and
\* expires another, the same in both orders, and in which a sweep of a later
\* day would differ with the order
C23_Witness ==
    LET ae == activateExpireTasks(memberships, now.day)
    IN  /\ activateExpireTasksSwapped(memberships, now.day) = ae
        /\ \E i, j \in DOMAIN memberships :
              /\ memberships[i].status = "pending" /\ ae[i].status = "active"
              /\ memberships[j].status = "active" /\ ae[j].status = "expired"
        /\ \E today \in SweepDays : PendingPastEnd(memberships, today) # {}

----------------------------------------------------------------------------
(* Claims about the life of one membership (SpecLife) *)

StatusRank(status) ==
    CASE status = "pending" -> 1
      [] status = "active"  -> 2
      [] status = "expired" -> 3

\* one status update of one row
ForwardUpdate(old, new) ==
    \/ new = old
    \/ old = "pending" /\ new = "active"
    \/ old = "active" /\ new = "expired"

\* what a step does to the status of the memberships: a sweep is the
\* activate update followed by the expire update, every other step is none
StatusStep ==
    LET mid == IF lastRun'.op = "sweep"
               THEN ActivatePending(memberships, now.day) ELSE memberships
    IN  \A i \in DOMAIN memberships :
            /\ i \in DOMAIN memberships'
            /\ ForwardUpdate(memberships[i].status, mid[i].status)
            /\ ForwardUpdate(mid[i].status, memberships'[i].status)
            /\ StatusRank(memberships'[i].status) >= StatusRank(memberships[i].status)
            /\ memberships[i].status = "expired" => memberships'[i].status = "expired"

\* C29: membership status is monotonic: every single status update is pending
\* to active or active to expired, expired is terminal, and no sweep,
\* subscribe request or clock advance returns a membership to an earlier
\* status.
C29_StatusMonotonic == [][StatusStep]_vars

\* C29 witness: a sweep on a day on which an expired membership had started
\* has left it expired, and has taken another membership from pending to
\* expired through its two updates
C29_Witness ==
    /\ Swept
    /\ \E i, j \in DOMAIN memberships :
          /\ Before[i].status = "expired" /\ memberships[i].status = "expired"
          /\ Before[j].status = "pending" /\ memberships[j].status = "expired"

----------------------------------------------------------------------------
(* Claims about an interrupted sweep (SpecLife) *)

\* the last step was a sweep that followed, on the same day, a sweep that
\* failed between its two updates
RetriedSweep == Swept /\ lastRun.origin # <<>>

\* the store before the sweep that failed
Origin == lastRun.origin[1]

\* C26: if a sweep fails after its first update has been applied and before
\* the second, the next sweep that succeeds with the same today leaves the
\* store in exactly the state a single uninterrupted sweep would have produced.
C26_RetriedSweepCompletes ==
    RetriedSweep => memberships = activateExpireTasks(Origin, now.day)

\* C26 witness: the failed sweep had activated a membership, the next sweep
\* has expired one, and a membership pending before the failure is expired
C26_Witness ==
    /\ RetriedSweep
    /\ Before # Origin
    /\ memberships # Before
    /\ \E i \in DOMAIN memberships :
          Origin[i].status = "pending" /\ memberships[i].status = "expired"

----------------------------------------------------------------------------
(* Claims about a daily job that aborts and is retried (Spec) *)

\* the last step was a tick that completed the daily job after the tick
\* before it, of the same day, had failed
RetryCompleted == Ticked /\ CompletedJob /\ lastRun.retry

\* the number of notifications at the start of today
DayStart == Cardinality({j \in DOMAIN notifications : notifications[j].created_at.day < now.day})

\* the notifications after one run of the daily job on the store as it was
\* at the start of today, with nothing failing
Uninterrupted ==
    dailyNotificationTasks(memberships, users, plans, attendance,
                           SubSeq(notifications, 1, DayStart), now, {})

NoteOf(ns, j) == <<ns[j].user_id, ns[j].type, ns[j].message>>

NotesOfToday(ns) == {NoteOf(ns, j) : j \in (DayStart + 1)..Len(ns)}

\* C27: if the daily job body aborts on a store error after it has inserted
\* notifications for some users, the retry on a later tick of the same day
\* inserts notifications only for the users still missing one: the
\* notifications of the day are those of one uninterrupted run, none twice
\* and none lost.
C27_RetryCompletesDailyJob ==
    RetryCompleted =>
        /\ NotesOfToday(notifications) = NotesOfToday(Uninterrupted)
        /\ Len(notifications) = Len(Uninterrupted)
        /\ \A i, j \in (DayStart + 1)..Len(notifications) :
              (/\ notifications[i].user_id = notifications[j].user_id
               /\ notifications[i].type = notifications[j].type) => i = j

\* C27 witness: the retry tick has completed the job; a run that aborted
\* earlier today had inserted a notification and the retry has inserted
\* another
C27_Witness ==
    /\ RetryCompleted
    /\ dayLog.manual = "no"
    /\ DayStart < lastRun.nBefore
    /\ lastRun.nBefore < Len(notifications)

----------------------------------------------------------------------------
(* Claims about restarts (SpecRestart) *)

Log == restartLog[1]

\* a tick at or after DAILY_RUN_HOUR fires as the first such tick since a
\* restart
FirstTickAfterRestart ==
    Log.rearmed /\ lastRun'.op = "tick" /\ now.hour >= DAILY_RUN_HOUR

\* the rows of the last run have no earlier notification of the same user
\* and type in the dedupe window: the day for a renewal, 7 days for an
\* attendance reminder
NoneInsertedTwice ==
    \A j \in Created : \A i \in 1..(j - 1) :
        (/\ notifications[i].user_id = notifications[j].user_id
         /\ notifications[i].type = notifications[j].type) =>
            IF notifications[j].type = "renewal"
            THEN notifications[i].created_at.day # notifications[j].created_at.day
            ELSE Stamp(notifications[i].created_at) < Stamp(notifications[j].created_at) - 7 * 24

\* the counts of the day, and the rows of a run after a restart
RestartCounts ==
    /\ lastRun.op = "restart" => lastDailyRunKey = NULL
    /\ Log.runs <= 1 + Log.restarts
    /\ (Ticked /\ Log.restarts > 0) => NoneInsertedTwice

\* C28 (as stated): a restart resets lastDailyRunKey to null, so the first
\* tick at hour >= DAILY_RUN_HOUR after the restart runs the daily job body
\* again even if it already ran that day.
C28_FirstTickAfterRestartRuns ==
    [][FirstTickAfterRestart => lastRun'.ranDaily]_vars

\* C28 (amended), the tick: the first tick at hour >= DAILY_RUN_HOUR after a
\* restart runs the daily job body again, even if it already ran that day,
\* if and only if its lifecycle updates succeed and no manual trigger has
\* set the key since the restart.
RearmedTickStep ==
    FirstTickAfterRestart =>
        (lastRun'.ranDaily <=>
            (lastRun'.fail \notin {"activate", "expire"} /\ dayLog.manual # "yes"))

\* C28 (amended): a restart resets lastDailyRunKey to null, the first tick
\* after it runs the daily job body as above, the tick-driven runs completed
\* on one day are at most 1 plus the restarts of that day, and a run after a
\* restart inserts no notification for a user notified in the dedupe window.
C28_RestartRearmsGate ==
    [][RearmedTickStep /\ RestartCounts /\ RestartCounts']_vars

\* C28 witness: the daily job had run today, the process restarted, and the
\* next tick has completed it again without inserting a row
C28_Witness ==
    /\ Ticked /\ CompletedJob
    /\ Log.restarts = 1 /\ Log.runs = 2
    /\ Created = {}
    /\ notifications # <<>>

----------------------------------------------------------------------------
(* Claims about overlapping handlers (SpecJobRace, SpecCheckinRace) *)

\* C24: job-body execution is serialized: when an hourly tick overlaps with
\* a manual trigger or with another tick, no user is left with two renewal
\* notifications created on the same calendar day or with two attendance
\* notifications within 7 days.
C24_NoDuplicateWhenRunsOverlap ==
    \A i, j \in DOMAIN notifications :
        (/\ i < j
         /\ notifications[i].user_id = notifications[j].user_id
         /\ notifications[i].type = notifications[j].type) =>
            IF notifications[i].type = "renewal"
            THEN notifications[i].created_at.day # notifications[j].created_at.day
            ELSE Stamp(notifications[j].created_at)
                    > Stamp(notifications[i].created_at) + 7 * 24

\* C25: when two check-in requests of the same user are handled
\* concurrently, with their lookup and insert steps interleaved, the user
\* never has two attendance entries with null check_out.
C25_OneOpenEntryWhenCheckinsOverlap ==
    \A u \in UserIds : Cardinality(OpenOf(attendance, u)) <= 1

----------------------------------------------------------------------------
(* Claims about the deletion of a plan (SpecPlanDelete) *)

PlanDeleted == lastRun.op = "plandelete"

PlansBefore == lastRun.origin[1]

\* C31 (as stated): deleting a membership plan that is referenced by at
\* least one membership succeeds: the plan is removed and the memberships
\* that reference it are left in the store unchanged.
C31_ReferencedPlanIsDeleted ==
    (PlanDeleted /\ Referenced(Before, lastRun.req[1])) =>
        /\ lastRun.req[1] \notin DOMAIN plans
        /\ memberships = Before

\* C31 (amended): deleting a membership plan that is referenced by at least
\* one membership is rejected: the plan stays, with every other plan, and the
\* memberships are unchanged; a plan no membership references is removed, so
\* every membership always references an existing plan.
C31_ReferencedPlanIsKept ==
    /\ \A i \in DOMAIN memberships : memberships[i].plan_id \in DOMAIN plans
    /\ PlanDeleted =>
          /\ memberships = Before
          /\ IF Referenced(Before, lastRun.req[1])
             THEN plans = PlansBefore
             ELSE /\ lastRun.req[1] \notin DOMAIN plans
                  /\ \A q \in DOMAIN PlansBefore \ {lastRun.req[1]} :
                        q \in DOMAIN plans /\ plans[q] = PlansBefore[q]

\* C31 witness: the delete of a plan that a membership references has left
\* the plan in place, after the delete of the other plan had removed it
C31_Witness ==
    /\ PlanDeleted
    /\ Referenced(memberships, lastRun.req[1])
    /\ lastRun.req[1] \in DOMAIN plans
    /\ DOMAIN plans # DOMAIN InitPlans

----------------------------------------------------------------------------
(* Claims about deactivated users and admins (SpecSession) *)

Requested == lastRun.op = "request"

\* C32: a deactivated user never completes an authenticated request: login
\* is refused while is_active = 0, and every request that carries the session
\* of a deactivated user has the session destroyed and reaches no route
\* handler, also when the is_active lookup itself fails.
C32_DeactivatedUserIsKickedOut ==
    /\ (lastRun.op = "login" /\ ~users[lastRun.req[1]].is_active) =>
          (~lastRun.handled /\ lastRun.req[1] \notin sessions)
    /\ (Requested /\ ~users[lastRun.req[1]].is_active) =>
          /\ ~lastRun.handled
          /\ lastRun.req[1] \notin sessions
          /\ attendance = Before

UsersBefore == lastRun.origin[1]

Managed == lastRun.op \in {"deactivate", "reactivate"}

\* C34: no sequence of deactivate and reactivate requests changes the
\* is_active flag of a user whose role is admin or of the admin issuing the
\* request, so every admin stays active; deactivating an already inactive
\* member and reactivating an already active member change nothing.
C34_AdminsStayActive ==
    /\ \A u \in DOMAIN users : users[u].role = "admin" => users[u].is_active
    /\ Managed =>
          /\ DOMAIN users = DOMAIN UsersBefore
          /\ \A u \in DOMAIN users :
                (UsersBefore[u].role = "admin" \/ u = lastRun.req[1]) =>
                    users[u] = UsersBefore[u]
          /\ \A u \in DOMAIN users \ {lastRun.req[2]} : users[u] = UsersBefore[u]
    /\ (/\ lastRun.op = "deactivate" /\ lastRun.req[2] \in DOMAIN UsersBefore
        /\ ~UsersBefore[lastRun.req[2]].is_active) => users = UsersBefore
    /\ (/\ lastRun.op = "reactivate" /\ lastRun.req[2] \in DOMAIN UsersBefore
        /\ UsersBefore[lastRun.req[2]].is_active) => users = UsersBefore

\* C34 witness: with the member deactivated, an admin has asked to deactivate
\* the other admin, and nothing has changed
C34_Witness ==
    /\ lastRun.op = "deactivate"
    /\ lastRun.req[2] \in DOMAIN users
    /\ users[lastRun.req[2]].role = "admin"
    /\ lastRun.req[2] # lastRun.req[1]
    /\ \E u \in DOMAIN users : ~users[u].is_active

----------------------------------------------------------------------------
(* C33 *)

\* a token already generated for its user that no row stores
Spent(us, token) ==
    /\ token[1] \in DOMAIN us
    /\ token[2] <= us[token[1]].issued
    /\ \A u \in DOMAIN us : us[u].verification_token # <<token>>

\* the token user u held before the last request
TokenBefore(u) == lastRun'.origin[1][u].verification_token

C33_Step ==
    /\ \A u \in DOMAIN users : users[u].email_verified => users'[u].email_verified
    /\ \A u \in DOMAIN users' :
          users'[u].email_verified => users'[u].verification_token = NULL
    /\ \A token \in Tokens : Spent(users, token) => Spent(users', token)
    /\ lastRun'.op = "verify" =>
          /\ lastRun'.handled => Spent(users', lastRun'.req[1])
          /\ Spent(users, lastRun'.req[1]) => ~lastRun'.handled /\ users' = users
    /\ lastRun'.op = "resend" /\ lastRun'.handled =>
          /\ ~users[lastRun'.req[1]].email_verified
          /\ TokenBefore(lastRun'.req[1]) # NULL =>
                Spent(users', TokenBefore(lastRun'.req[1])[1])
    /\ lastRun'.op = "resend" /\ lastRun'.req[1] \in DOMAIN users
          /\ users[lastRun'.req[1]].email_verified => users' = users

\* C33: email_verified never goes from 1 back to 0; a successful verify
\* clears the token and the same token is rejected from then on; a resend
\* replaces the stored token, so the previous one is rejected from then on;
\* resend gives a token only to an unverified user, and a verified user
\* holds no verification token.
C33_VerificationIsOneWay == [][C33_Step]_vars

\* a user who was sent a second token and verified is refused on presenting
\* one of the tokens again
C33_Witness ==
    /\ lastRun.op = "verify"
    /\ ~lastRun.handled
    /\ lastRun.req[1][1] \in DOMAIN users
    /\ users[lastRun.req[1][1]].email_verified
    /\ users[lastRun.req[1][1]].issued >= 2
    /\ lastRun.req[1][2] <= users[lastRun.req[1][1]].issued

====
